---------------------------- MODULE Spec2Model ----------------------------
(***************************************************************************)
(* Entity-modal lifecycle and validation engine of                         *)
(* companies/static/js/script.js.                                          *)
(*                                                                         *)
(* Strings the code parses (field values, field names, entity names,       *)
(* paths) are sequences of one-character strings, so that the regular      *)
(* expressions, masks and conversions of the code are computed, not        *)
(* assumed.  Strings the code only passes along (alert texts, labels) are  *)
(* plain strings.                                                          *)
(***************************************************************************)
EXTENDS Integers, Sequences, FiniteSets, Bags, TLC

(***************************************************************************)
(* Characters and string helpers                                           *)
(***************************************************************************)
Digits == {"0", "1", "2", "3", "4", "5", "6", "7", "8", "9"}

\* \s of the regular expressions and the characters String.prototype.trim strips
Spaces == {" ", "\t", "\n"}

\* Number(c) for one decimal digit
DigitVal(c) ==
  CASE c = "0" -> 0 [] c = "1" -> 1 [] c = "2" -> 2 [] c = "3" -> 3 [] c = "4" -> 4
    [] c = "5" -> 5 [] c = "6" -> 6 [] c = "7" -> 7 [] c = "8" -> 8 [] c = "9" -> 9

\* Number(s) for a non-empty string of decimal digits
RECURSIVE NumVal(_)
NumVal(s) ==
  IF Len(s) = 0 THEN 0
  ELSE 10 * NumVal(SubSeq(s, 1, Len(s) - 1)) + DigitVal(s[Len(s)])

\* String(n).padStart(w, "0")
RECURSIVE PadNum(_, _)
PadNum(n, w) ==
  IF w = 0 THEN << >>
  ELSE PadNum(n \div 10, w - 1) \o
       << CASE n % 10 = 0 -> "0" [] n % 10 = 1 -> "1" [] n % 10 = 2 -> "2"
            [] n % 10 = 3 -> "3" [] n % 10 = 4 -> "4" [] n % 10 = 5 -> "5"
            [] n % 10 = 6 -> "6" [] n % 10 = 7 -> "7" [] n % 10 = 8 -> "8"
            [] n % 10 = 9 -> "9" >>

\* s.slice(0, n)
Take(s, n) == SubSeq(s, 1, IF n < Len(s) THEN n ELSE Len(s))

\* s.slice(n)
Drop(s, n) == SubSeq(s, n + 1, Len(s))

\* s.replace(/<class>/g, "") : the characters of s that are in keep, in order
RECURSIVE Filter(_, _)
Filter(s, keep) ==
  IF Len(s) = 0 THEN << >>
  ELSE (IF s[1] \in keep THEN << s[1] >> ELSE << >>) \o Filter(Tail(s), keep)

\* s.replace(/\s+/g, "")
RECURSIVE StripSpaces(_)
StripSpaces(s) ==
  IF Len(s) = 0 THEN << >>
  ELSE (IF s[1] \in Spaces THEN << >> ELSE << s[1] >>) \o StripSpaces(Tail(s))

RECURSIVE TrimLeft(_)
TrimLeft(s) == IF Len(s) > 0 /\ s[1] \in Spaces THEN TrimLeft(Tail(s)) ELSE s

RECURSIVE TrimRight(_)
TrimRight(s) ==
  IF Len(s) > 0 /\ s[Len(s)] \in Spaces THEN TrimRight(SubSeq(s, 1, Len(s) - 1)) ELSE s

\* String.prototype.trim
Trim(s) == TrimRight(TrimLeft(s))

LowerLetters ==
  << "a", "b", "c", "d", "e", "f", "g", "h", "i", "j", "k", "l", "m", "n", "o", "p", "q", "r", "s", "t", "u", "v", "w", "x", "y", "z" >>
UpperLetters ==
  << "A", "B", "C", "D", "E", "F", "G", "H", "I", "J", "K", "L", "M", "N", "O", "P", "Q", "R", "S", "T", "U", "V", "W", "X", "Y", "Z" >>

\* String.prototype.toLowerCase on one character
LowerChar(c) ==
  IF \E i \in 1..26 : UpperLetters[i] = c
  THEN LowerLetters[CHOOSE i \in 1..26 : UpperLetters[i] = c]
  ELSE c

ToLower(s) == [i \in 1..Len(s) |-> LowerChar(s[i])]

\* s.endsWith(p)
EndsWith(s, p) == Len(p) <= Len(s) /\ SubSeq(s, Len(s) - Len(p) + 1, Len(s)) = p

\* s.includes(p)
Includes(s, p) ==
  \E i \in 1..(Len(s) - Len(p) + 1) : SubSeq(s, i, i + Len(p) - 1) = p

(***************************************************************************)
(* dd/mm/yyyy helpers                                                      *)
(***************************************************************************)
\* /^\d{2}\/\d{2}\/\d{4}$/.test(s)
MatchesDDMMYYYY(s) ==
  /\ Len(s) = 10
  /\ s[3] = "/" /\ s[6] = "/"
  /\ \A i \in {1, 2, 4, 5, 7, 8, 9, 10} : s[i] \in Digits

\* /^\d{4}-\d{2}-\d{2}$/.test(s)
MatchesISODate(s) ==
  /\ Len(s) = 10
  /\ s[5] = "-" /\ s[8] = "-"
  /\ \A i \in {1, 2, 3, 4, 6, 7, 9, 10} : s[i] \in Digits

\* faulty variant of DaysInMonth: every fourth year is a leap year
DaysInMonthJulian(y, m) ==
  IF m = 2 THEN (IF y % 4 = 0 THEN 29 ELSE 28)
  ELSE (IF m \in {4, 6, 9, 11} THEN 30 ELSE 31)

\* new Date(y, m, 0).getDate(): the number of days of month m (1..12) of year y
DaysInMonth(y, m) ==
  IF m = 2
  THEN (IF (y % 4 = 0 /\ y % 100 # 0) \/ y % 400 = 0 THEN 29 ELSE 28)
  ELSE (IF m \in {4, 6, 9, 11} THEN 30 ELSE 31)

isValidDateDDMMYYYY(s) ==
  IF ~MatchesDDMMYYYY(s) THEN FALSE
  ELSE LET d == NumVal(SubSeq(s, 1, 2))
           m == NumVal(SubSeq(s, 4, 5))
           y == NumVal(SubSeq(s, 7, 10))
       IN  IF y < 1900 \/ y > 9999 THEN FALSE
           ELSE IF m < 1 \/ m > 12 THEN FALSE
           ELSE d >= 1 /\ d <= DaysInMonth(y, m)

\* the input listener of attachDateMask: digits only, at most 8, slashes inserted
DateMask(value) ==
  LET v == Take(Filter(value, Digits), 8)
  IN  IF Len(v) >= 5 THEN Take(v, 2) \o << "/" >> \o SubSeq(v, 3, 4) \o << "/" >> \o Drop(v, 4)
      ELSE IF Len(v) >= 3 THEN Take(v, 2) \o << "/" >> \o Drop(v, 2)
      ELSE v

\* formatDateFields: a yyyy-mm-dd value is re-displayed as dd/mm/yyyy
DisplayDate(value) ==
  IF Len(value) > 0 /\ Includes(value, << "-" >>) /\ MatchesISODate(value)
  THEN SubSeq(value, 9, 10) \o << "/" >> \o SubSeq(value, 6, 7) \o << "/" >> \o SubSeq(value, 1, 4)
  ELSE value

\* faulty variant of TransmitDate: day and month are swapped
TransmitDateSwapped(value) ==
  LET t == Trim(value)
  IN  IF MatchesDDMMYYYY(t)
      THEN SubSeq(t, 7, 10) \o << "-" >> \o SubSeq(t, 1, 2) \o << "-" >> \o SubSeq(t, 4, 5)
      ELSE value

\* save handler: the value transmitted for a date input; a trimmed dd/mm/yyyy
\* shape is re-encoded as yyyy-mm-dd, anything else is sent as FormData read it
TransmitDate(value) ==
  LET t == Trim(value)
  IN  IF MatchesDDMMYYYY(t)
      THEN SubSeq(t, 7, 10) \o << "-" >> \o SubSeq(t, 4, 5) \o << "-" >> \o SubSeq(t, 1, 2)
      ELSE value

\* the input listener addMasks binds to input[name="phone"]
PhoneMask(value) == Take(Filter(value, Digits), 10)

\* validateForm: /^[^\s@]+@[^\s@]+\.[^\s@]+$/.test(val)
MatchesEmail(s) ==
  \E i \in 1..Len(s) : \E j \in 1..Len(s) :
    /\ i >= 2 /\ j >= i + 2 /\ j <= Len(s) - 1
    /\ s[i] = "@" /\ s[j] = "."
    /\ \A k \in 1..Len(s) : k # i => s[k] \notin (Spaces \cup {"@"})

\* validateForm: /^\d{4}\s\d{4}\s\d{4}$/.test(val)
MatchesAadhar(s) ==
  /\ Len(s) = 14
  /\ s[5] \in Spaces /\ s[10] \in Spaces
  /\ \A i \in (1..14) \ {5, 10} : s[i] \in Digits

(***************************************************************************)
(* Form fields                                                             *)
(*                                                                         *)
(* A field is one input, select or textarea of #entity-form:               *)
(*   tag, type   tagName and el.type                                       *)
(*   name, id    the name and id attributes                                *)
(*   cls         class "date-field"                                        *)
(*   ph          placeholder is "dd/mm/yyyy" or "DD/MM/YYYY"               *)
(*   dtype       data-type="date"                                          *)
(*   req         "attr" (required), "data" (data-required="true"),         *)
(*               "aria" (aria-required="true") or "none"                   *)
(*   opt         data-optional="true"                                      *)
(*   hid         the field is inside an element with the hidden attribute  *)
(*   box         the field is rendered (has a layout box) while its modal  *)
(*               is displayed                                              *)
(*   dis         disabled                                                  *)
(*   value, checked                                                        *)
(*   invalid, isInvalid   classes "invalid" and "is-invalid"               *)
(*   fb          the messages shown in the field's .invalid-feedback       *)
(*               element (the code joins them with ", ")                   *)
(***************************************************************************)
S_date == << "d", "a", "t", "e" >>
S_dob == << "d", "o", "b" >>
S_aadhar == << "a", "a", "d", "h", "a", "r" >>
S_phone == << "p", "h", "o", "n", "e" >>

\* the selector dateSel of formatDateFields, allDatesValid, prepareFormValidation
\* and the save handler (attribute selectors are case-sensitive)
dateSel(el) ==
  /\ el.tag = "input"
  /\ \/ el.cls
     \/ el.ph
     \/ el.dtype
     \/ Includes(el.name, S_date)
     \/ Includes(el.name, S_dob)

\* validateForm's date test: class, data-type, or /date|dob/i on the name
isDateForValidator(el) ==
  \/ el.cls
  \/ el.dtype
  \/ Includes(ToLower(el.name), S_date)
  \/ Includes(ToLower(el.name), S_dob)

\* isVisible(el) for a field of a modal whose style.display is disp: inside a
\* display:none modal no element has an offsetParent or client rects
isVisible(el, disp) == el.box /\ disp # "none"

\* faulty variant of isGroupChecked: every member is looked at on its own
isSelfChecked(fields, el) ==
  IF el.type # "checkbox" /\ el.type # "radio" THEN TRUE ELSE el.name = << >> \/ el.checked

\* isGroupChecked(form, el)
isGroupChecked(fields, el) ==
  IF el.type # "checkbox" /\ el.type # "radio" THEN TRUE
  ELSE IF el.name = << >> THEN TRUE
  ELSE \E k \in 1..Len(fields) :
         /\ fields[k].tag = "input" /\ fields[k].type = el.type
         /\ fields[k].name = el.name
         /\ fields[k].checked

\* one iteration of the loop of areAllVisibleFieldsFilled: TRUE when the
\* field makes the function return false
\* faulty variant of FieldUnfilled: only fields marked required are asked for
FieldUnfilledRequiredOnly(fields, el, disp) ==
  IF ~isVisible(el, disp) \/ el.dis \/ el.type = "hidden" THEN FALSE
  ELSE IF el.req = "none" THEN FALSE
  ELSE IF el.type = "checkbox" \/ el.type = "radio" THEN ~isGroupChecked(fields, el)
  ELSE Trim(el.value) = << >>

FieldUnfilled(fields, el, disp) ==
  IF ~isVisible(el, disp) \/ el.dis \/ el.type = "hidden" THEN FALSE
  ELSE IF el.opt THEN FALSE
  ELSE IF el.type = "button" \/ el.type = "submit" THEN FALSE
  ELSE IF el.type = "checkbox" \/ el.type = "radio" THEN ~isGroupChecked(fields, el)
  ELSE Trim(el.value) = << >>

areAllVisibleFieldsFilled(fields, disp) ==
  \A k \in 1..Len(fields) : ~FieldUnfilled(fields, fields[k], disp)

allDatesValid(fields, disp) ==
  \A k \in 1..Len(fields) :
    (dateSel(fields[k]) /\ isVisible(fields[k], disp) /\ ~fields[k].dis)
      => (Len(Trim(fields[k].value)) = 10 /\ isValidDateDDMMYYYY(Trim(fields[k].value)))

isRequired(el) == el.req # "none"

\* faulty variant of FieldFailure: the date rule is tried before the e-mail rule
FieldFailureDateFirst(el) ==
  LET val == Trim(el.value)
  IN  IF el.hid \/ el.type = "hidden" \/ el.dis THEN ""
      ELSE IF isRequired(el) /\ val = << >> THEN "Please fill the required field."
      ELSE IF isDateForValidator(el) /\ val # << >> /\ ~isValidDateDDMMYYYY(val)
        THEN "Date must be dd/mm/yyyy."
      ELSE IF el.type = "email" /\ val # << >> /\ ~MatchesEmail(val)
        THEN "Invalid email address."
      ELSE IF el.name # << >> /\ Includes(ToLower(el.name), S_aadhar)
              /\ val # << >> /\ ~MatchesAadhar(val)
        THEN "Invalid Aadhaar format."
      ELSE ""

\* the rules validateForm applies to one field, in order: the message of the
\* first failing rule, "" when the field passes or is skipped
FieldFailure(el) ==
  LET val == Trim(el.value)
  IN  IF el.hid \/ el.type = "hidden" \/ el.dis THEN ""
      ELSE IF isRequired(el) /\ val = << >> THEN "Please fill the required field."
      ELSE IF el.type = "email" /\ val # << >> /\ ~MatchesEmail(val)
        THEN "Invalid email address."
      ELSE IF isDateForValidator(el) /\ val # << >> /\ ~isValidDateDDMMYYYY(val)
        THEN "Date must be dd/mm/yyyy."
      ELSE IF el.name # << >> /\ Includes(ToLower(el.name), S_aadhar)
              /\ val # << >> /\ ~MatchesAadhar(val)
        THEN "Invalid Aadhaar format."
      ELSE ""

\* validateForm's loop from field k on: returns at the first failing field
RECURSIVE ValidateFrom(_, _)
ValidateFrom(fields, k) ==
  IF k > Len(fields) THEN [valid |-> TRUE, firstEl |-> 0, msg |-> ""]
  ELSE IF FieldFailure(fields[k]) # ""
    THEN [valid |-> FALSE, firstEl |-> k, msg |-> FieldFailure(fields[k])]
  ELSE ValidateFrom(fields, k + 1)

\* validateForm(form): the result object (firstEl is the field's position)
validateForm(fields) == ValidateFrom(fields, 1)

\* validateForm's side effect: mark(el) adds class "invalid" to the failing field
MarkFailure(fields) ==
  LET v == validateForm(fields)
  IN  IF v.valid THEN fields
      ELSE [fields EXCEPT ![v.firstEl].invalid = TRUE]

\* clearInvalids(form)
clearInvalids(fields) ==
  [k \in 1..Len(fields) |->
     [fields[k] EXCEPT !.invalid = FALSE, !.isInvalid = FALSE, !.fb = << >>]]

\* clearFieldErrors(form)
clearFieldErrors(fields) ==
  [k \in 1..Len(fields) |-> [fields[k] EXCEPT !.isInvalid = FALSE, !.fb = << >>]]

\* faulty variant of focusAndClear: the value is kept
focusOnly(fields, k) == fields

\* focusAndClear(el) on field k (k = 0: el is null)
focusAndClear(fields, k) ==
  IF k = 0 THEN fields ELSE [fields EXCEPT ![k].value = << >>]

\* faulty variant of SaveEligible: the two completeness checks are left out
SaveEligibleValidatorOnly(fields, disp) == validateForm(fields).valid

\* faulty variant of SaveEligible: only the dates are looked at
SaveEligibleDatesOnly(fields, disp) == allDatesValid(fields, disp)

\* the value of `enable` in recomputeSaveEnabled
SaveEligible(fields, disp) ==
  /\ areAllVisibleFieldsFilled(fields, disp)
  /\ allDatesValid(fields, disp)
  /\ validateForm(fields).valid

\* the fields after recomputeSaveEnabled: && short-circuits, so validateForm
\* runs (and marks) only when the two completeness checks hold
FieldsAfterRecompute(fields, disp) ==
  IF areAllVisibleFieldsFilled(fields, disp) /\ allDatesValid(fields, disp)
  THEN MarkFailure(fields)
  ELSE fields

\* locateField(form, fieldName): the position of the first match, 0 for null
FirstMatch(fields, P(_)) ==
  IF \E k \in 1..Len(fields) : P(fields[k])
  THEN CHOOSE k \in 1..Len(fields) :
         P(fields[k]) /\ \A j \in 1..(k - 1) : ~P(fields[j])
  ELSE 0

locateField(fields, fieldName) ==
  LET byName(el) == el.name = fieldName
      byArr(el) == el.name = fieldName \o << "[", "]" >>
      byId(el) == el.id = << "i", "d", "_" >> \o fieldName
      bySuffix(el) == EndsWith(el.id, fieldName)
  IN  IF fieldName = << >> THEN 0
      ELSE IF FirstMatch(fields, byName) # 0 THEN FirstMatch(fields, byName)
      ELSE IF FirstMatch(fields, byArr) # 0 THEN FirstMatch(fields, byArr)
      ELSE IF FirstMatch(fields, byId) # 0 THEN FirstMatch(fields, byId)
      ELSE FirstMatch(fields, bySuffix)

\* new FormData(form): the entries (name, value) of the successful controls in
\* document order: named, enabled, and checked if a checkbox or radio
RECURSIVE FormDataFrom(_, _)
FormDataFrom(fields, k) ==
  IF k > Len(fields) THEN << >>
  ELSE (IF /\ fields[k].name # << >> /\ ~fields[k].dis
           /\ fields[k].type \notin {"button", "submit"}
           /\ (fields[k].type \in {"checkbox", "radio"} => fields[k].checked)
        THEN << [name |-> fields[k].name, value |-> fields[k].value] >>
        ELSE << >>)
       \o FormDataFrom(fields, k + 1)

\* formData.set(name, value): the first entry of that name gets the value and
\* the other entries of that name are removed; without one, an entry is appended
FormDataSet(fd, name, value) ==
  IF \E i \in 1..Len(fd) : fd[i].name = name
  THEN LET first == CHOOSE i \in 1..Len(fd) :
                      fd[i].name = name /\ \A j \in 1..(i - 1) : fd[j].name # name
           keep(e) == e.name # name \/ e.value = << "*" >>
           marked == [i \in 1..Len(fd) |->
                        IF i = first THEN [name |-> name, value |-> << "*" >>] ELSE fd[i]]
           kept == SelectSeq(marked, keep)
       IN  [i \in 1..Len(kept) |->
              IF kept[i].name = name THEN [name |-> name, value |-> value] ELSE kept[i]]
  ELSE Append(fd, [name |-> name, value |-> value])

\* the save handler's loop over the date inputs from field k on: every input
\* matched by the date selector whose trimmed value has the dd/mm/yyyy shape is
\* set in the form data as yyyy-mm-dd
RECURSIVE NormaliseFrom(_, _, _)
NormaliseFrom(fd, fields, k) ==
  IF k > Len(fields) THEN fd
  ELSE NormaliseFrom(IF dateSel(fields[k]) /\ MatchesDDMMYYYY(Trim(fields[k].value))
                     THEN FormDataSet(fd, fields[k].name, TransmitDate(fields[k].value))
                     ELSE fd,
                     fields, k + 1)

\* the body of the save request
SaveBody(fields) == NormaliseFrom(FormDataFrom(fields, 1), fields, 1)

\* formatDateFields on one field
formatDateField(el) ==
  IF dateSel(el)
  THEN [el EXCEPT !.value = DisplayDate(el.value), !.ph = TRUE, !.type = "text"]
  ELSE el

formatDateFields(fields) == [k \in 1..Len(fields) |-> formatDateField(fields[k])]

\* the Aadhaar mask of addMasks: the first 12 digits, a blank after every
\* group of four that another digit follows
AadharMask(value) ==
  LET d == Take(Filter(value, Digits), 12)
  IN  [i \in 1..(Len(d) + ((IF Len(d) = 0 THEN 1 ELSE Len(d)) - 1) \div 4) |->
         IF i % 5 = 0 THEN " " ELSE d[i - (i \div 5)]]

\* the input listeners of one field, in the order they were attached (date mask
\* of attachDateMask, then the phone and Aadhaar masks of addMasks), applied to
\* a typed value
MaskedInput(el, typed) ==
  LET v1 == IF dateSel(el) THEN DateMask(typed) ELSE typed
      v2 == IF el.tag = "input" /\ el.name = S_phone THEN PhoneMask(v1) ELSE v1
  IN  IF el.tag = "input" /\ el.name = S_aadhar THEN AadharMask(v2) ELSE v2

(***************************************************************************)
(* Entity paths and titles                                                 *)
(***************************************************************************)
UpperChar(c) ==
  IF \E i \in 1..26 : LowerLetters[i] = c
  THEN UpperLetters[CHOOSE i \in 1..26 : LowerLetters[i] = c]
  ELSE c

\* \w of the regular expressions
WordChars ==
  Digits \cup {"_"} \cup {LowerLetters[i] : i \in 1..26} \cup {UpperLetters[i] : i \in 1..26}

\* prettyName(entity): "_" becomes " ", then the first character of every word
\* is upper-cased
prettyName(entity) ==
  LET r == [i \in 1..Len(entity) |-> IF entity[i] = "_" THEN " " ELSE entity[i]]
  IN  [i \in 1..Len(r) |->
         IF r[i] \in WordChars /\ (i = 1 \/ r[i - 1] \notin WordChars)
         THEN UpperChar(r[i]) ELSE r[i]]

\* getEntityBase(entity) for a non-empty entity; encodeURIComponent leaves the
\* letters and digits of the model's entity names as they are
\* faulty variant of getEntityBase: the entity is used as the markup gives it
getEntityBaseRaw(entity) == << "/" >> \o entity \o << "/" >>

\* getEntityBase(entity) for a non-empty entity
getEntityBase(entity) == << "/" >> \o ToLower(StripSpaces(entity)) \o << "/" >>

\* String(id).replace(/^:/, "")
StripColon(id) == IF Len(id) > 0 /\ id[1] = ":" THEN Tail(id) ELSE id

S_create == << "c", "r", "e", "a", "t", "e", "/" >>
S_update == << "u", "p", "d", "a", "t", "e", "/" >>
S_get == << "g", "e", "t", "/" >>
S_Create == << "C", "r", "e", "a", "t", "e" >>
S_Edit == << "E", "d", "i", "t" >>

\* faulty variant of ActionFor: the create endpoint in every mode
ActionForCreateOnly(entity, mode, id) == getEntityBase(entity) \o S_create

\* the form.action insertEntityModal sets for a mode
ActionFor(entity, mode, id) ==
  IF mode = "Create" THEN getEntityBase(entity) \o S_create
  ELSE getEntityBase(entity) \o S_update \o StripColon(id) \o << "/" >>

\* `${mode} ${prettyName(entity)}`
TitleFor(entity, mode) ==
  (IF mode = "Create" THEN S_Create ELSE S_Edit) \o << " " >> \o prettyName(entity)

\* the date `new Date()` returns, as <<day, month, year>>
Today == << 29, 2, 2024 >>

\* insertEntityModal: today's date formatted dd/mm/yyyy
TodayDDMMYYYY ==
  PadNum(Today[1], 2) \o << "/" >> \o PadNum(Today[2], 2) \o << "/" >> \o PadNum(Today[3], 4)

(***************************************************************************)
(* Modal elements and server fragments                                     *)
(*                                                                         *)
(* A modal is one element with id "entity-modal":                          *)
(*   uid      the identity of the node (0 while it is only markup)         *)
(*   display  style.display                                                *)
(*   title    #entity-modal-title, when present, and its text              *)
(*   body     the modal has a .modal-body                                  *)
(*   bodyc    the modal has #entity-modal-body (the skeleton's region)     *)
(*   errBox   #form-errors, when present, and its <p> entries              *)
(*   form     #entity-form, when present; listening: the input, change and *)
(*            blur listeners of prepareFormValidation are attached         *)
(*   btn      #modal-save-btn, when present; handlers counts the click     *)
(*            listeners setupSaveButtonHandler added, boundAjax is         *)
(*            dataset.boundAjax === "1"                                    *)
(***************************************************************************)
Field(tag, type, name, req, value) ==
  [tag |-> tag, type |-> type, name |-> name, id |-> << "i", "d", "_" >> \o name,
   cls |-> FALSE, ph |-> FALSE, dtype |-> FALSE, req |-> req, opt |-> FALSE,
   hid |-> FALSE, box |-> TRUE, dis |-> FALSE, value |-> value, checked |-> FALSE,
   invalid |-> FALSE, isInvalid |-> FALSE, fb |-> << >>]

NoForm ==
  [present |-> FALSE, action |-> << >>, entity |-> << >>, fields |-> << >>,
   listening |-> FALSE]

\* a server-rendered form: no action attribute, no data-entity
FormOf(fields) ==
  [present |-> TRUE, action |-> << >>, entity |-> << >>, fields |-> fields,
   listening |-> FALSE]

NoBtn ==
  [present |-> FALSE, disabled |-> FALSE, label |-> "", handlers |-> 0,
   boundAjax |-> FALSE]

BtnOf(label, disabled) ==
  [present |-> TRUE, disabled |-> disabled, label |-> label, handlers |-> 0,
   boundAjax |-> FALSE]

\* the element ensureModalSkeleton creates
Skeleton ==
  [uid |-> 0, display |-> "none",
   title |-> [present |-> TRUE, text |-> << >>],
   body |-> TRUE, bodyc |-> TRUE,
   errBox |-> [present |-> TRUE, items |-> << >>],
   form |-> NoForm,
   btn |-> BtnOf("Save", TRUE)]

\* a server-rendered modal root
RootModal(form, btn) ==
  [uid |-> 0, display |-> "none",
   title |-> [present |-> TRUE, text |-> << >>],
   body |-> TRUE, bodyc |-> FALSE,
   errBox |-> [present |-> FALSE, items |-> << >>],
   form |-> form,
   btn |-> btn]

S_name == << "n", "a", "m", "e" >>
S_doj == << "d", "o", "j" >>
S_all == << "_", "_", "a", "l", "l", "_", "_" >>
V_ab == << "a", "b" >>
V_iso == << "2", "0", "2", "4", "-", "0", "2", "-", "2", "9" >>
V_digitsOk == << "2", "9", "0", "2", "2", "0", "2", "4" >>
V_digitsBad == << "3", "1", "0", "2", "2", "0", "2", "4" >>

V_mailOk == << "a", "@", "b", ".", "c" >>
V_aadharOk == << "1", "2", "3", "4", " ", "5", "6", "7", "8", " ", "9", "0", "1", "2" >>
V_on == << "o", "n" >>
S_email == << "e", "m", "a", "i", "l" >>
S_perm == << "p", "e", "r", "m" >>
S_note == << "n", "o", "t", "e" >>
S_code == << "c", "o", "d", "e" >>
S_AadharDOB == << "A", "a", "d", "h", "a", "r", "D", "O", "B" >>

NameField(v) == Field("input", "text", S_name, "attr", v)
DojField(v) == [Field("input", "text", S_doj, "none", v) EXCEPT !.cls = TRUE]

\* A fragment is the markup of one response body:
\*   empty   the string is ""
\*   marker  /id=["']entity-modal["']/ matches the text
\*   root    the parsed markup holds an element with id "entity-modal" (modal)
\*   form    the form of a fragment without a root (NoForm: none)
Frag(marker, root, modal, form) ==
  [empty |-> FALSE, marker |-> marker, root |-> root, modal |-> modal, form |-> form]

NoHtml ==
  [empty |-> TRUE, marker |-> FALSE, root |-> FALSE, modal |-> Skeleton, form |-> NoForm]

\* create form with its own modal root: required name, date of joining
FragNew ==
  Frag(TRUE, TRUE,
       RootModal(FormOf(<< NameField(<< >>), DojField(<< >>) >>), BtnOf("Save", FALSE)),
       NoForm)

\* the same form pre-filled for a record, the date in the server's yyyy-mm-dd
FragEdit ==
  Frag(TRUE, TRUE,
       RootModal(FormOf(<< NameField(V_ab), DojField(V_iso) >>), BtnOf("Update", FALSE)),
       NoForm)

\* form markup without a modal root: a date of joining
FragBare ==
  Frag(FALSE, FALSE, Skeleton, FormOf(<< DojField(<< >>) >>))

\* a modal root that holds a message and neither form nor save control
FragNoForm == Frag(TRUE, TRUE, RootModal(NoForm, NoBtn), NoForm)

\* text that mentions id="entity-modal" without holding such an element
FragMarker == Frag(TRUE, FALSE, Skeleton, NoForm)

\* any other text
FragText == Frag(FALSE, FALSE, Skeleton, NoForm)

(***************************************************************************)
(* The document: the elements with id "entity-modal", in document order.   *)
(* document.getElementById and querySelector return the first match.       *)
(***************************************************************************)
FirstWith(d, P(_)) ==
  IF \E k \in 1..Len(d) : P(d[k])
  THEN CHOOSE k \in 1..Len(d) : P(d[k]) /\ \A j \in 1..(k - 1) : ~P(d[j])
  ELSE 0

HasForm(m) == m.form.present
HasBtn(m) == m.btn.present
HasBox(m) == m.errBox.present
HasBody(m) == m.body
HasTitle(m) == m.title.present
HasBodyC(m) == m.bodyc

\* document.getElementById("entity-form"), as the position of its modal
FormIdx(d) == FirstWith(d, HasForm)

\* document.getElementById("modal-save-btn"), as the position of its modal
BtnIdx(d) == FirstWith(d, HasBtn)

\* faulty variant of RemoveFirst: existing.remove() is left out
RemoveNone(d) == d

\* d.slice(1): the document after existing.remove()
RemoveFirst(d) == IF Len(d) = 0 THEN d ELSE Tail(d)

ensureFormErrorBox(d) ==
  IF FirstWith(d, HasBox) # 0 THEN d
  ELSE IF FirstWith(d, HasBody) = 0 THEN d
  ELSE [d EXCEPT ![FirstWith(d, HasBody)].errBox = [present |-> TRUE, items |-> << >>]]

\* faulty variant of setupSaveButtonHandler: the one-shot marker is never set
setupUnmarked(d) ==
  LET b == BtnIdx(d)
  IN  IF b = 0 THEN d ELSE [d EXCEPT ![b].btn.handlers = @ + 1]

\* setupSaveButtonHandler: one click listener per button, guarded by the
\* one-shot marker dataset.boundAjax
setupSaveButtonHandler(d) ==
  LET b == BtnIdx(d)
  IN  IF b = 0 \/ d[b].btn.boundAjax THEN d
      ELSE [d EXCEPT ![b].btn.boundAjax = TRUE, ![b].btn.handlers = @ + 1]

\* recomputeSaveEnabled(form, saveBtn) on the document's form and save button
recomputeSaveEnabled(d) ==
  LET f == FormIdx(d)
      b == BtnIdx(d)
  IN  IF f = 0 \/ b = 0 THEN d
      ELSE LET enable == SaveEligible(d[f].form.fields, d[f].display)
               d1 == [d EXCEPT ![f].form.fields = FieldsAfterRecompute(@, d[f].display)]
           IN  [d1 EXCEPT ![b].btn.disabled = ~enable]

\* prepareFormValidation(form, saveBtn) on the document's form and save button
prepareFormValidation(d) ==
  LET f == FormIdx(d)
      b == BtnIdx(d)
  IN  IF f = 0 \/ b = 0 THEN d
      ELSE recomputeSaveEnabled([d EXCEPT ![b].btn.disabled = TRUE,
                                          ![f].form.listening = TRUE])

\* formatDateFields(): every matching input of the document
formatDateFieldsDoc(d) ==
  [k \in 1..Len(d) |-> [d[k] EXCEPT !.form.fields = formatDateFields(@)]]

\* faulty variant of closeEntityModal: the modal stays displayed
closeNothing(d) == d

\* closeEntityModal(): style.display = "none" on the document's entity modal
\* faulty variant of closeEntityModal: the fields of the form are emptied as well
closeAndReset(d) ==
  IF Len(d) = 0 THEN d
  ELSE [d EXCEPT ![1].display = "none",
                 ![1].form.fields = [k \in 1..Len(@) |-> [@[k] EXCEPT !.value = << >>]]]

closeEntityModal(d) ==
  IF Len(d) = 0 THEN d ELSE [d EXCEPT ![1].display = "none"]

\* faulty variant of replaceModalWithHTML: nothing is ever installed
replaceNothing(d, html, uid) == d

\* replaceModalWithHTML(html); uid is the identity of the element parsed from html
replaceModalWithHTML(d, html, uid) ==
  IF html.empty \/ ~html.root THEN d
  ELSE LET fresh == [html.modal EXCEPT !.uid = uid, !.display = "flex"]
           d1 == Append(RemoveFirst(d), fresh)
           d2 == formatDateFieldsDoc(d1)
           d3 == ensureFormErrorBox(d2)
           d4 == setupSaveButtonHandler(d3)
       IN  prepareFormValidation(d4)

\* what the save handler does after replaceModalWithHTML: prepareFormValidation
\* on the document's form and button once more
ReRender(d, html, uid) == prepareFormValidation(replaceModalWithHTML(d, html, uid))

\* the form of insertEntityModal's branches after its entity and action are set
TargetForm(form, entity, mode, id) ==
  IF ~form.present THEN form
  ELSE [form EXCEPT !.entity = entity, !.action = ActionFor(entity, mode, id)]

\* skeleton branch, Create mode: empty input.date-field values get today's date
PrefillDates(fields) ==
  [k \in 1..Len(fields) |->
     IF fields[k].tag = "input" /\ fields[k].cls /\ fields[k].value = << >>
     THEN [fields[k] EXCEPT !.value = TodayDDMMYYYY]
     ELSE fields[k]]

\* insertEntityModal up to the end of its if/else; done is FALSE when the
\* skeleton branch returns early
InsertBranch(d, entity, html, mode, id, uid) ==
  LET d0 == RemoveFirst(d)
  IN  IF ~html.empty /\ html.root
      THEN LET m0 == [html.modal EXCEPT !.uid = uid, !.display = "flex"]
               m1 == IF m0.title.present
                     THEN [m0 EXCEPT !.title.text = TitleFor(entity, mode)] ELSE m0
               m2 == [m1 EXCEPT !.form = TargetForm(@, entity, mode, id)]
           IN  [done |-> TRUE, doc |-> ensureFormErrorBox(Append(d0, m2))]
      ELSE LET d1 == IF Len(d0) = 0 THEN << [Skeleton EXCEPT !.uid = uid] >> ELSE d0
               t == FirstWith(d1, HasTitle)
               c == FirstWith(d1, HasBodyC)
           IN  IF t = 0 \/ c = 0 THEN [done |-> FALSE, doc |-> d1]
               ELSE LET d2 == [d1 EXCEPT ![t].title.text = TitleFor(entity, mode)]
                        d3 == [d2 EXCEPT ![c].form = html.form]
                        d4 == [d3 EXCEPT ![1].display = "flex"]
                        f == FormIdx(d4)
                        d5 == IF f = 0 THEN d4
                              ELSE [d4 EXCEPT ![f].form = TargetForm(@, entity, mode, id)]
                        d6 == IF f # 0 /\ mode = "Create"
                              THEN [d5 EXCEPT ![f].form.fields = PrefillDates(@)] ELSE d5
                    IN  [done |-> TRUE, doc |-> d6]

\* insertEntityModal(entity, html, mode, id)
insertEntityModal(d, entity, html, mode, id, uid) ==
  LET r == InsertBranch(d, entity, html, mode, id, uid)
  IN  IF ~r.done THEN r.doc
      ELSE LET d1 == IF Len(r.doc) = 0 THEN r.doc ELSE [r.doc EXCEPT ![1].display = "flex"]
               d2 == formatDateFieldsDoc(d1)
               d3 == ensureFormErrorBox(d2)
               d4 == setupSaveButtonHandler(d3)
           IN  prepareFormValidation(d4)

(***************************************************************************)
(* Requests in flight and the responses the server may give                *)
(***************************************************************************)
\* A fetch in flight is what its handlers close over: the kind of caller, the
\* entity and id it was called with, and for a save the identity of the modal
\* whose save button the click handler holds and the label it captured.
\* A call of fetch is the URL together with that closure.

\* the options of a fetch call: the method, whether the headers X-CSRFToken
\* (with the value getCsrfTokenSafe() returns) and X-Requested-With are given,
\* and the credentials mode
FetchOpts(method, csrf, xrw, credentials) ==
  [method |-> method, csrf |-> csrf, xrw |-> xrw, credentials |-> credentials]

\* the options of the form fetches and of the POST requests
ReadOpts == FetchOpts("GET", FALSE, TRUE, "include")
\* faulty variant of WriteOpts: the token header is left out
WriteOptsNoToken == FetchOpts("POST", FALSE, TRUE, "include")
WriteOpts == FetchOpts("POST", TRUE, TRUE, "include")

\* the fetch of openEntityModal
OpenReq(entity) ==
  [url |-> getEntityBase(entity) \o S_get, body |-> << >>, opts |-> ReadOpts,
   req |-> [kind |-> "open", entity |-> entity, id |-> << >>, modal |-> 0, prevTxt |-> "", field |-> 0]]

\* the fetch of editEntity (id already stripped of its leading ":")
EditReq(entity, id) ==
  [url |-> getEntityBase(entity) \o S_get \o id \o << "/" >>, body |-> << >>,
   opts |-> ReadOpts,
   req |-> [kind |-> "edit", entity |-> entity, id |-> id, modal |-> 0, prevTxt |-> "", field |-> 0]]

\* the fetch of the save handler
SaveReq(url, body, uid, prevTxt) ==
  [url |-> url, body |-> body, opts |-> WriteOpts,
   req |-> [kind |-> "save", entity |-> << >>, id |-> << >>, modal |-> uid,
            prevTxt |-> prevTxt, field |-> 0]]

NoErrors == [present |-> FALSE, items |-> << >>]
ErrorsOf(items) == [present |-> TRUE, items |-> items]

\* {"__all__": ["Mismatch"], "name": ["Taken", "Too short"]}
ErrAllName ==
  ErrorsOf(<< [field |-> S_all, msgs |-> << "Mismatch" >>],
              [field |-> S_name, msgs |-> << "Taken", "Too short" >>] >>)

\* {"doj": ["Bad date"], "name": ["Taken"]}
ErrDojName ==
  ErrorsOf(<< [field |-> S_doj, msgs |-> << "Bad date" >>],
              [field |-> S_name, msgs |-> << "Taken" >>] >>)

\* {}
ErrEmpty == ErrorsOf(<< >>)

\* A response: status, redirected, content type ("json" or "text"); for json,
\* bad (res.json() rejects), the keys success, errors, error and html (frag) of
\* the body; for text, frag is the body
Json(status, redirected, success, errors, html) ==
  [status |-> status, redirected |-> redirected, ct |-> "json", bad |-> FALSE,
   success |-> success, errors |-> errors, error |-> "", frag |-> html, code |-> << >>, otp |-> FALSE]

Text(status, redirected, frag) ==
  [status |-> status, redirected |-> redirected, ct |-> "text", bad |-> FALSE,
   success |-> FALSE, errors |-> NoErrors, error |-> "", frag |-> frag, code |-> << >>, otp |-> FALSE]

BadJson ==
  [status |-> 200, redirected |-> FALSE, ct |-> "json", bad |-> TRUE,
   success |-> FALSE, errors |-> NoErrors, error |-> "", frag |-> NoHtml, code |-> << >>, otp |-> FALSE]

NoResp ==
  [status |-> 0, redirected |-> FALSE, ct |-> "none", bad |-> FALSE,
   success |-> FALSE, errors |-> NoErrors, error |-> "", frag |-> NoHtml, code |-> << >>, otp |-> FALSE]

\* the bodies a save may be answered with
SaveResponses ==
  {Json(200, FALSE, TRUE, NoErrors, NoHtml),
   Json(200, FALSE, TRUE, ErrAllName, FragEdit),
   Json(400, FALSE, FALSE, ErrAllName, NoHtml),
   Json(200, FALSE, FALSE, ErrDojName, FragNew),
   Json(200, FALSE, FALSE, ErrEmpty, NoHtml),
   Json(200, FALSE, FALSE, NoErrors, FragEdit),
   Json(200, FALSE, FALSE, NoErrors, FragBare),
   Json(200, FALSE, FALSE, NoErrors, FragNoForm),
   Json(200, FALSE, FALSE, NoErrors, NoHtml),
   BadJson,
   Text(200, FALSE, FragNew),
   Text(200, FALSE, FragMarker),
   Text(500, FALSE, FragText),
   Json(401, FALSE, TRUE, NoErrors, NoHtml),
   Json(403, FALSE, FALSE, ErrAllName, NoHtml),
   Text(200, TRUE, FragNew)}

\* the form the server renders for a form fetch: empty for a new record,
\* pre-filled for an existing one
FormFor(kind) == IF kind = "open" THEN FragNew ELSE FragEdit

\* the bodies a form fetch of the given kind may be answered with
FetchResponses(kind) ==
  {Json(200, FALSE, TRUE, NoErrors, f) : f \in {FormFor(kind), FragBare, FragNoForm, NoHtml}}
  \cup {[Json(200, FALSE, FALSE, NoErrors, NoHtml) EXCEPT !.error = "No permission"],
        Json(500, FALSE, TRUE, NoErrors, FormFor(kind)),
        BadJson,
        Text(200, FALSE, FormFor(kind)),
        Text(404, FALSE, FragText),
        Text(403, FALSE, FragText),
        Text(200, TRUE, FormFor(kind))}

\* faulty variant of IsAuthFailure: status 403 is not recognised
IsAuthFailureNo403(res) == res.status = 401 \/ res.redirected

\* res.status === 401 || res.status === 403 || res.redirected
IsAuthFailure(res) == res.status = 401 \/ res.status = 403 \/ res.redirected

\* res.ok
IsOk(res) == res.status >= 200 /\ res.status <= 299

\* `Error ${res.status}`
ErrorStatusText(status) ==
  CASE status = 200 -> "Error 200" [] status = 400 -> "Error 400"
    [] status = 404 -> "Error 404" [] status = 500 -> "Error 500"
    [] OTHER -> "Error"

(***************************************************************************)
(* State                                                                   *)
(***************************************************************************)
\* requests that may be in flight at once
MaxInFlight == 2

\* entity names and record identifiers as the page's markup gives them
Entities == { << "L", "o", "a", "n", " ", "A", "p", "p" >> }
Ids == { << ":", "4", "2" >> }

\* what the user may leave in a field: nothing, or text of the field's kind
TypedFor(el) ==
  IF dateSel(el) THEN { << >>, V_digitsOk, V_digitsBad }
  ELSE { << >>, V_ab }
       \cup (IF el.type = "email" THEN { V_mailOk } ELSE {})
       \cup (IF isDateForValidator(el) THEN { TodayDDMMYYYY } ELSE {})
       \cup (IF Includes(ToLower(el.name), S_aadhar) THEN { V_aadharOk } ELSE {})
       \cup (IF el.name = S_phone \/ el.name = S_aadhar THEN { V_digitsOk } ELSE {})

VARIABLES
  doc,       \* the entity-modal elements of the document, in document order
  net,       \* the bag of fetches in flight
  login,     \* #login-modal: present in the page, shown, text of #login-error
  reloaded,  \* location.reload() was called, or the document was left by a
             \* navigation: the page is being replaced
  page,      \* the markup outside the modal: the role of the body and the
             \* entity buttons and links, each with its attributes, classes,
             \* text and chain of ancestors
  ev         \* the last handler that ran and what it put out:
             \*   op         the event handled
             \*   alerts     the alert calls, in order
             \*   focus      the field focusAndClear focused (0: none)
             \*   sent       the fetch calls
             \*   kind, btn  for a settled fetch: the kind of its caller and
             \*              the position in the document of the modal whose
             \*              save button its handlers hold (0: none, or the
             \*              modal has left the document)
             \*   resp       the response it was given
             \*   installed  the handler put a new element into the document
             \*   target     the entity button a click was dispatched on (0: none)
             \*   confirm    the answer to the confirm() dialog the handler
             \*              opened: "yes", "no", or "none" without a dialog
  ,
  pw         \* the password inputs and visibility toggles of the document:
             \*   nodes      the inputs and toggles, in document order, each
             \*              with its chain of ancestors
             \*   records    the mutation records queued for the observer
             \*   observing  startEyeObserver has run
             \*   sweep      the timer startEyeObserver sets has not fired yet
             \*   calls      the number of callbacks the observer has run, modulo 2

vars == << doc, net, login, reloaded, ev, page, pw >>

\* a document without password inputs
NoFields ==
  [nodes |-> << >>, records |-> << >>, observing |-> FALSE, sweep |-> FALSE, calls |-> 0]

Event(op, alerts, focus, sent, kind, btn, resp, installed) ==
  [op |-> op, alerts |-> alerts, focus |-> focus, sent |-> sent, kind |-> kind,
   btn |-> btn, resp |-> resp, installed |-> installed, target |-> 0,
   confirm |-> "none"]

\* a page without entity buttons; role is document.body.dataset.role
NoPage == [role |-> "", els |-> << >>]

Init ==
  /\ doc = << >>
  /\ net = EmptyBag
  /\ login \in {[present |-> p, open |-> FALSE, err |-> "", otp |-> FALSE] : p \in BOOLEAN}
  /\ reloaded = FALSE
  /\ pw = NoFields
  /\ ev = Event("load", << >>, 0, << >>, "none", 0, NoResp, FALSE)
  /\ page = NoPage

\* the identity given to a newly created element: one that no element of the
\* document and no request in flight carries
FreshUid(d) == Len(d) + 1

\* the position in the document of the modal with identity uid, 0 when detached
ModalByUid(d, uid) ==
  IF \E k \in 1..Len(d) : d[k].uid = uid
  THEN CHOOSE k \in 1..Len(d) : d[k].uid = uid
  ELSE 0

\* the requests in flight once req has settled
Settle(n, req) == n (-) SetToBag({req})

\* the requests in flight once the fetch calls of the sequence sent are made
RECURSIVE Started(_, _)
Started(n, sent) ==
  IF Len(sent) = 0 THEN n ELSE Started(n (+) SetToBag({Head(sent).req}), Tail(sent))

(***************************************************************************)
(* Handlers.  A handler maps the state it finds to a result                *)
(*   [doc, login, reload, alerts, focus, sent].                            *)
(***************************************************************************)
Result(d, lg, reload, alerts, focus, sent) ==
  [doc |-> d, login |-> lg, reload |-> reload, alerts |-> alerts, focus |-> focus,
   sent |-> sent, confirm |-> "none"]

\* handleAuthFailure(msg): openLoginModal() then showInlineLoginError(msg);
\* #login-error is part of the login modal's markup
handleAuthFailure(r, msg) ==
  IF r.login.present
  THEN [r EXCEPT !.login = [present |-> TRUE, open |-> TRUE, err |-> msg, otp |-> FALSE]]
  ELSE [r EXCEPT !.alerts = @ \o << "Not authenticated.", msg >>]

\* openLoginModal()
openLoginModal(r) ==
  IF r.login.present
  THEN [r EXCEPT !.login = [present |-> TRUE, open |-> TRUE, err |-> "", otp |-> FALSE]]
  ELSE [r EXCEPT !.alerts = @ \o << "Not authenticated." >>]

\* closeLoginModal()
closeLoginModal(lg) ==
  IF lg.present THEN [present |-> TRUE, open |-> FALSE, err |-> "", otp |-> FALSE] ELSE lg

\* faulty variant of LocalGuard: the completeness and date guard is left out
ValidatorGuardOnly(fields, disp) ==
  IF ~validateForm(fields).valid THEN "invalid" ELSE "send"

\* the two local guards of the click listener, in order: "invalid" when
\* validateForm fails, "incomplete" when the completeness or the date check
\* fails, "send" otherwise
LocalGuard(fields, disp) ==
  IF ~validateForm(fields).valid THEN "invalid"
  ELSE IF ~areAllVisibleFieldsFilled(fields, disp) \/ ~allDatesValid(fields, disp)
    THEN "incomplete"
  ELSE "send"

\* one run of the click listener of the save button with identity uid
SaveClickOnce(r, uid) ==
  LET d == r.doc
      f == FormIdx(d)
      b == ModalByUid(d, uid)
  IN  IF f = 0 THEN r
      ELSE
        LET disp == d[f].display
            fields1 == clearInvalids(clearFieldErrors(d[f].form.fields))
            v == validateForm(fields1)
        IN  IF LocalGuard(fields1, disp) = "invalid"
            THEN [r EXCEPT
                    !.doc = [d EXCEPT ![f].form.fields =
                                         focusAndClear(MarkFailure(fields1), v.firstEl)],
                    !.alerts = @ \o << v.msg >>,
                    !.focus = v.firstEl]
            ELSE IF LocalGuard(fields1, disp) = "incomplete"
            THEN [r EXCEPT
                    !.doc = [d EXCEPT ![f].form.fields = fields1],
                    !.alerts = @ \o << "Please complete all fields and enter valid dates (dd/mm/yyyy)." >>]
            ELSE
              LET d1 == ensureFormErrorBox([d EXCEPT ![f].form.fields = fields1])
                  x == FirstWith(d1, HasBox)
                  d2 == IF x = 0 THEN d1 ELSE [d1 EXCEPT ![x].errBox.items = << >>]
                  d3 == [d2 EXCEPT ![b].btn.disabled = TRUE, ![b].btn.label = "Saving..."]
              IN  [r EXCEPT
                     !.doc = d3,
                     !.sent = @ \o << SaveReq(d[f].form.action, SaveBody(fields1), uid, d[b].btn.label) >>]

\* a click runs every click listener bound to the button
RECURSIVE SaveClickTimes(_, _, _)
SaveClickTimes(r, uid, n) ==
  IF n = 0 THEN r ELSE SaveClickTimes(SaveClickOnce(r, uid), uid, n - 1)

\* faulty variant of markFieldInvalid: no field is marked
markNothing(d, field, msgs) == d

\* markFieldInvalid(field, msgs)
markFieldInvalid(d, field, msgs) ==
  LET f == FormIdx(d)
  IN  IF f = 0 THEN d
      ELSE LET k == locateField(d[f].form.fields, field)
           IN  IF k = 0 THEN d
               ELSE [d EXCEPT ![f].form.fields[k].isInvalid = TRUE,
                              ![f].form.fields[k].fb = msgs]

\* the loop of showFormErrors from entry i on; x is the position of the
\* modal holding #form-errors (0: there is none)
RECURSIVE ShowErrorsFrom(_, _, _, _)
ShowErrorsFrom(d, x, items, i) ==
  IF i > Len(items) THEN d
  ELSE LET d1 == IF x = 0 THEN d ELSE [d EXCEPT ![x].errBox.items = Append(@, items[i])]
       IN  ShowErrorsFrom(markFieldInvalid(d1, items[i].field, items[i].msgs), x, items, i + 1)

\* showFormErrors(errors)
showFormErrors(d, items) ==
  LET d1 == ensureFormErrorBox(d)
      x == FirstWith(d1, HasBox)
      d2 == IF x = 0 THEN d1 ELSE [d1 EXCEPT ![x].errBox.items = << >>]
  IN  ShowErrorsFrom(d2, x, items, 1)

\* the branch `if (data.errors)` of the save handler; thrown is TRUE when
\* locateField dereferences a null form
ErrorsBranch(r, items) ==
  LET field == IF Len(items) > 0 THEN items[1].field ELSE << >>
      msg == IF Len(items) > 0 THEN items[1].msgs[1] ELSE "Fix errors."
      d1 == showFormErrors(r.doc, items)
      f == FormIdx(d1)
      r1 == [r EXCEPT !.doc = d1, !.alerts = @ \o << msg >>]
  IN  IF f = 0
      THEN [thrown |-> field # << >>, res |-> r1]
      ELSE LET k == locateField(d1[f].form.fields, field)
           IN  IF k = 0 THEN [thrown |-> FALSE, res |-> r1]
               ELSE [thrown |-> FALSE,
                     res |-> [r1 EXCEPT
                                !.doc = [d1 EXCEPT ![f].form.fields =
                                           focusAndClear([@ EXCEPT ![k].invalid = TRUE], k)],
                                !.focus = k]]

\* the .then handler of the save fetch; uid is the identity a parsed modal gets
SaveThen(r, res, uid) ==
  IF IsAuthFailure(res) THEN [thrown |-> FALSE, res |-> handleAuthFailure(r, "Not authenticated.")]
  ELSE IF res.ct = "json"
  THEN IF res.bad THEN [thrown |-> TRUE, res |-> r]
       ELSE IF res.success
         THEN [thrown |-> FALSE,
               res |-> [r EXCEPT !.doc = closeEntityModal(@), !.reload = TRUE]]
       ELSE IF res.errors.present THEN ErrorsBranch(r, res.errors.items)
       ELSE IF ~res.frag.empty
         THEN [thrown |-> FALSE, res |-> [r EXCEPT !.doc = ReRender(@, res.frag, uid)]]
       ELSE [thrown |-> FALSE, res |-> [r EXCEPT !.alerts = @ \o << "Validation failed." >>]]
  ELSE IF ~res.frag.empty /\ res.frag.marker
    THEN [thrown |-> FALSE, res |-> [r EXCEPT !.doc = ReRender(@, res.frag, uid)]]
  ELSE [thrown |-> FALSE,
        res |-> [r EXCEPT !.alerts = @ \o << "Server returned unexpected response. Reloading..." >>,
                          !.reload = TRUE]]

\* the .catch handler of the save fetch
SaveCatch(r) == [r EXCEPT !.alerts = @ \o << "Submission failed. Check console." >>]

\* faulty variant of SaveFinally: the button is looked up in the document
\* when the request completes
SaveFinallyCurrent(r, req) ==
  LET b == BtnIdx(r.doc)
  IN  IF b = 0 THEN r
      ELSE [r EXCEPT !.doc[b].btn.disabled = FALSE,
                     !.doc[b].btn.label = IF req.prevTxt = "" THEN "Save" ELSE req.prevTxt]

\* the .finally handler of the save fetch, on the button the click handler
\* closed over; a button that left the document can never return to it, so
\* only a button still in the document is changed observably
SaveFinally(r, req) ==
  LET b == ModalByUid(r.doc, req.modal)
  IN  IF b = 0 \/ ~r.doc[b].btn.present THEN r
      ELSE [r EXCEPT !.doc[b].btn.disabled = FALSE,
                     !.doc[b].btn.label = IF req.prevTxt = "" THEN "Save" ELSE req.prevTxt]

\* fetch(...).then(...).catch(...).finally(...) of the save handler, settled
\* with response res
SaveSettled(r, req, res, uid) ==
  LET t == SaveThen(r, res, uid)
  IN  SaveFinally(IF t.thrown THEN SaveCatch(t.res) ELSE t.res, req)

\* faulty variant of SaveRejected: the page is reloaded as well
SaveRejectedReload(r, req) == [SaveFinally(SaveCatch(r), req) EXCEPT !.reload = TRUE]

\* the same chain when the fetch itself rejects
SaveRejected(r, req) == SaveFinally(SaveCatch(r), req)

\* the names fillAutoCode looks for, in the order it tries them
CodeNames ==
  << S_code, << "v", "o", "u", "c", "h", "e", "r", "_", "n", "o" >>, << "s", "m", "t", "c", "o", "d", "e" >>, << "e", "m", "p", "c", "o", "d", "e" >>, << "s", "t", "a", "f", "f", "c", "o", "d", "e" >>, << "V", "C", "o", "d", "e" >> >>

\* the input fillAutoCode picks: the first input of the first of these names
\* the form has; 0 without one
AutoCodeTarget(fields) ==
  LET has(n) == \E i \in 1..Len(fields) : fields[i].tag = "input" /\ fields[i].name = CodeNames[n]
  IN  IF \E n \in 1..Len(CodeNames) : has(n)
      THEN LET n == CHOOSE x \in 1..Len(CodeNames) : has(x) /\ \A y \in 1..(x - 1) : ~has(y)
           IN  CHOOSE i \in 1..Len(fields) :
                 /\ fields[i].tag = "input" /\ fields[i].name = CodeNames[n]
                 /\ \A j \in 1..(i - 1) : ~(fields[j].tag = "input" /\ fields[j].name = CodeNames[n])
      ELSE 0

\* the fetch of fillAutoCode; its handlers hold the input at position i of the
\* form of the modal uid
CodeReq(entity, uid, i) ==
  [url |-> << "/", "n", "e", "x", "t", "_", "c", "o", "d", "e", "/" >>,
   body |-> << [name |-> << "e", "n", "t", "i", "t", "y" >>, value |-> ToLower(StripSpaces(entity))] >>,
   opts |-> WriteOpts,
   req |-> [kind |-> "code", entity |-> entity, id |-> << >>, modal |-> uid, prevTxt |-> "",
            field |-> i]]

\* fillAutoCode(entity)
fillAutoCode(r, entity) ==
  LET f == FormIdx(r.doc)
      i == IF f = 0 THEN 0 ELSE AutoCodeTarget(r.doc[f].form.fields)
  IN  IF i = 0 THEN r
      ELSE IF r.doc[f].form.fields[i].value # << >> THEN r
      ELSE [r EXCEPT !.sent = @ \o << CodeReq(entity, r.doc[f].uid, i) >>]

\* the then-handlers of fillAutoCode's fetch; a body that is no JSON ends in
\* its catch-handler, which only logs
CodeSettled(r, req, res) ==
  LET k == ModalByUid(r.doc, req.modal)
  IN  IF res.ct # "json" \/ res.bad \/ res.code = << >> \/ k = 0 THEN r
      ELSE IF r.doc[k].form.fields[req.field].value # << >> THEN r
      ELSE [r EXCEPT !.doc[k].form.fields[req.field].value = res.code]

\* showInlineLoginError(msg)
showInlineLoginError(r, msg) ==
  IF r.login.present THEN [r EXCEPT !.login.err = msg]
  ELSE [r EXCEPT !.alerts = @ \o << msg >>]

\* the fetch of the login form's submit handler
LoginReq ==
  [url |-> << "/", "l", "o", "g", "i", "n", "/" >>, body |-> << >>, opts |-> WriteOpts,
   req |-> [kind |-> "login", entity |-> << >>, id |-> << >>, modal |-> 0, prevTxt |-> "",
            field |-> 0]]

\* the then-handler of the login fetch
LoginSettled(r, res) ==
  IF res.redirected /\ res.ct # "json" THEN showInlineLoginError(r, "Invalid credentials.")
  ELSE IF res.status \in {400, 401, 403} THEN showInlineLoginError(r, "Invalid credentials.")
  ELSE IF res.ct = "json"
  THEN IF res.bad THEN showInlineLoginError(r, "Network error. Please try again.")
       ELSE IF res.success
       THEN [r EXCEPT !.login = closeLoginModal(@), !.reload = TRUE]
       ELSE showInlineLoginError([r EXCEPT !.login.otp = @ \/ (r.login.present /\ res.otp)],
                                 IF res.error # "" THEN res.error ELSE "Invalid credentials.")
  ELSE showInlineLoginError(r, "Invalid credentials.")

\* the catch-handler of the login fetch
LoginRejected(r) == showInlineLoginError(r, "Network error. Please try again.")

\* faulty variant of FetchSettled: a response that arrives while the document
\* already holds an entity modal is discarded as stale
FetchSettledDropStale(r, req, res, uid) ==
  IF Len(r.doc) > 0 \/ IsAuthFailure(res) \/ res.bad \/ res.frag.empty THEN r
  ELSE [r EXCEPT !.doc = insertEntityModal(@, req.entity, res.frag,
                                           IF req.kind = "open" THEN "Create" ELSE "Edit",
                                           req.id, uid)]

\* the .then and .catch handlers of the fetches of openEntityModal (mode
\* "Create") and editEntity (mode "Edit")
FetchSettled(r, req, res, uid) ==
  LET mode == IF req.kind = "open" THEN "Create" ELSE "Edit"
      html == res.frag
      inserted == [r EXCEPT !.doc = insertEntityModal(@, req.entity, html, mode, req.id, uid)]
      install == IF InsertBranch(r.doc, req.entity, html, mode, req.id, uid).done
                 THEN fillAutoCode(inserted, req.entity) ELSE inserted
  IN  IF IsAuthFailure(res) THEN handleAuthFailure(r, "Not authenticated.")
      ELSE IF res.ct = "json"
      THEN IF res.bad
           THEN [r EXCEPT !.alerts = @ \o << IF mode = "Create"
                                              THEN "Failed to load create form."
                                              ELSE "Failed to load data." >>]
           ELSE IF ~IsOk(res) \/ ~res.success
             THEN [r EXCEPT !.alerts = @ \o << IF res.error # "" THEN res.error
                                                ELSE ErrorStatusText(res.status) >>]
           ELSE IF html.empty THEN [r EXCEPT !.alerts = @ \o << "Empty form response." >>]
           ELSE install
      ELSE IF res.status = 404
        THEN [r EXCEPT !.alerts = @ \o << IF mode = "Create" THEN "Form endpoint not found."
                                           ELSE "Edit form endpoint not found." >>]
      ELSE IF html.empty THEN [r EXCEPT !.alerts = @ \o << "Empty form response." >>]
      ELSE install

\* the fetch of openImageModal (id already stripped of its leading ":")
ImageReq(entity, id) ==
  [url |-> getEntityBase(entity) \o S_get \o id \o << "/" >>, body |-> << >>,
   opts |-> ReadOpts,
   req |-> [kind |-> "image", entity |-> entity, id |-> id, modal |-> 0, prevTxt |-> "", field |-> 0]]

\* the then-handler of openImageModal's fetch; the image preview modal it
\* fills is no entity modal and is not part of doc.  The frag of the response
\* stands for the value the body gives for the field asked for.
ImageSettled(r, res) ==
  IF IsAuthFailure(res) THEN handleAuthFailure(r, "Not authenticated.")
  ELSE IF res.ct = "json" /\ res.bad
    THEN [r EXCEPT !.alerts = @ \o << "Failed to load image preview." >>]
  ELSE IF res.frag.empty THEN [r EXCEPT !.alerts = @ \o << "Image not available." >>]
  ELSE r

\* the catch-handler of openImageModal's fetch
ImageRejected(r) == [r EXCEPT !.alerts = @ \o << "Failed to load image preview." >>]

\* faulty variant of FetchRejected: the modal is hidden as well
FetchRejectedHides(r, req) ==
  [r EXCEPT !.doc = closeEntityModal(@),
            !.alerts = @ \o << IF req.kind = "open" THEN "Failed to load create form."
                                ELSE "Failed to load data." >>]

FetchRejected(r, req) ==
  [r EXCEPT !.alerts = @ \o << IF req.kind = "open" THEN "Failed to load create form."
                                ELSE "Failed to load data." >>]

\* the catch-handler of deleteEntity's fetch
DeleteRejected(r, req) ==
  [r EXCEPT !.alerts = @ \o << "Delete request failed. Check console for details." >>]

(***************************************************************************)
(* Actions: one per event the page reacts to.  No handler runs once        *)
(* location.reload() has been called.                                      *)
(***************************************************************************)
\* the result a handler starts from
Start == Result(doc, login, FALSE, << >>, 0, << >>)

\* Node identities are only ever compared for equality.  After a handler the
\* elements of the document are renumbered by position, and an element that
\* has left the document (it can never return) is 0.
RenumberDoc(d) == [k \in 1..Len(d) |-> [d[k] EXCEPT !.uid = k]]

RenumberReq(d, q) == [q EXCEPT !.modal = ModalByUid(d, @)]

RECURSIVE SumCopies(_, _)
SumCopies(n, S) ==
  IF S = {} THEN 0
  ELSE LET q == CHOOSE x \in S : TRUE
       IN  CopiesIn(q, n) + SumCopies(n, S \ {q})

RenumberNet(d, n) ==
  LET img == {RenumberReq(d, q) : q \in BagToSet(n)}
  IN  [p \in img |-> SumCopies(n, {q \in BagToSet(n) : RenumberReq(d, q) = p})]

\* the request a handler that settles no fetch is given
NoReq == [kind |-> "none", entity |-> << >>, id |-> << >>, modal |-> 0, prevTxt |-> "", field |-> 0]

\* the state after a handler: req is the fetch it settled, resp the response
\* it was given, rest are the requests still in flight
\* target is the position in the page of the entity button the event was
\* dispatched on, 0 for any other event
CommitAt(r, op, rest, req, resp, target) ==
  /\ doc' = RenumberDoc(r.doc)
  /\ login' = r.login
  /\ reloaded' = r.reload
  /\ net' = RenumberNet(r.doc, Started(rest, r.sent))
  /\ ev' = [Event(op, r.alerts, r.focus, r.sent, req.kind,
                  ModalByUid(doc, req.modal), resp,
                  \E k \in 1..Len(r.doc) : ModalByUid(doc, r.doc[k].uid) = 0)
              EXCEPT !.target = target, !.confirm = r.confirm]
  /\ page' = page
  /\ pw' = pw

Commit(r, op, rest, req, resp) == CommitAt(r, op, rest, req, resp, 0)

\* isUserPermEntity(ent)
isUserPermEntity(ent) ==
  ToLower(ent) \in { << "u", "s", "e", "r", "p", "e", "r", "m", "i", "s", "s", "i", "o", "n" >>,
                     << "u", "s", "e", "r", "p", "e", "r", "m", "i", "s", "s", "i", "o", "n", "s" >> }

\* openEntityModal(entity) for an entity other than the user-permission page's
OpenCreate(entity) ==
  /\ ~reloaded
  /\ BagCardinality(net) < MaxInFlight
  /\ entity # << >> /\ ~isUserPermEntity(entity)
  /\ Commit([Start EXCEPT !.sent = << OpenReq(entity) >>], "open", net, NoReq, NoResp)

\* editEntity(entity, id)
OpenEdit(entity, id) ==
  /\ ~reloaded
  /\ BagCardinality(net) < MaxInFlight
  /\ entity # << >> /\ id # << >> /\ ~isUserPermEntity(entity)
  /\ Commit([Start EXCEPT !.sent = << EditReq(entity, StripColon(id)) >>], "edit", net,
            NoReq, NoResp)

\* the fetch req of openEntityModal or editEntity is answered with res
FetchResponse(req, res) ==
  /\ ~reloaded
  /\ req.kind \in {"open", "edit"}
  /\ res \in FetchResponses(req.kind)
  /\ Commit(FetchSettled(Start, req, res, FreshUid(doc)), "fetchResponse",
            Settle(net, req), req, res)

\* the save fetch req is answered with res
SaveResponse(req, res) ==
  /\ ~reloaded
  /\ req.kind = "save"
  /\ Commit(SaveSettled(Start, req, res, FreshUid(doc)), "saveResponse",
            Settle(net, req), req, res)

\* the fetch req fails at the network level
NetworkFailure(req) ==
  /\ ~reloaded
  /\ Commit(IF req.kind = "save" THEN SaveRejected(Start, req)
            ELSE IF req.kind = "delete" THEN DeleteRejected(Start, req)
            ELSE IF req.kind = "code" THEN Start
            ELSE IF req.kind = "login" THEN LoginRejected(Start)
            ELSE IF req.kind = "image" THEN ImageRejected(Start)
            ELSE FetchRejected(Start, req),
            "networkFailure", Settle(net, req), req, NoResp)

\* the user clicks the enabled save button of the displayed modal at position k
SaveClick(k) ==
  /\ ~reloaded
  /\ doc[k].display # "none"
  /\ doc[k].btn.present /\ ~doc[k].btn.disabled
  /\ doc[k].btn.handlers >= 1
  /\ BagCardinality(net) + doc[k].btn.handlers <= MaxInFlight
  /\ Commit(SaveClickTimes(Start, doc[k].uid, doc[k].btn.handlers), "saveClick", net,
            NoReq, NoResp)

\* a field the user can reach
Editable(m, el) ==
  /\ m.display # "none"
  /\ el.box /\ ~el.hid /\ ~el.dis /\ el.type # "hidden"

\* faulty variant of onChange: the marks are cleared, the button is left as it was
onChangeClearOnly(d, k) ==
  IF d[k].form.listening
  THEN [d EXCEPT ![k].form.fields = clearInvalids(@)]
  ELSE d

\* the listener onChange of prepareFormValidation, attached to every field of
\* a form that has listeners
onChange(d, k) ==
  IF d[k].form.listening
  THEN recomputeSaveEnabled([d EXCEPT ![k].form.fields = clearInvalids(@)])
  ELSE d

\* the user edits field i of the form of modal k, leaving typed in it: the
\* input event runs the masks, then onChange
InputEvent(k, i, typed) ==
  /\ ~reloaded
  /\ doc[k].form.present
  /\ Editable(doc[k], doc[k].form.fields[i])
  /\ doc[k].form.fields[i].type \notin {"checkbox", "radio"}
  /\ typed \in TypedFor(doc[k].form.fields[i])
  /\ LET d1 == [doc EXCEPT ![k].form.fields[i].value = MaskedInput(doc[k].form.fields[i], typed)]
     IN  Commit([Start EXCEPT !.doc = onChange(d1, k)], "input", net, NoReq, NoResp)

\* the browser's default action for a click on checkbox or radio i: a checkbox
\* flips, a radio is checked and the other radios of its group are unchecked
Toggle(fields, i) ==
  IF fields[i].type = "checkbox" THEN [fields EXCEPT ![i].checked = ~@]
  ELSE [k \in 1..Len(fields) |->
          IF k = i THEN [fields[k] EXCEPT !.checked = TRUE]
          ELSE IF fields[k].type = "radio" /\ fields[k].name = fields[i].name
            THEN [fields[k] EXCEPT !.checked = FALSE]
          ELSE fields[k]]

\* the user clicks checkbox or radio i of the form of modal k: the change
\* event runs onChange
ChangeEvent(k, i) ==
  /\ ~reloaded
  /\ doc[k].form.present
  /\ Editable(doc[k], doc[k].form.fields[i])
  /\ doc[k].form.fields[i].type \in {"checkbox", "radio"}
  /\ LET d1 == [doc EXCEPT ![k].form.fields = Toggle(@, i)]
     IN  Commit([Start EXCEPT !.doc = onChange(d1, k)], "change", net, NoReq, NoResp)

\* field i of the form of modal k loses focus: the blur event runs onChange
BlurEvent(k, i) ==
  /\ ~reloaded
  /\ doc[k].form.present
  /\ Editable(doc[k], doc[k].form.fields[i])
  /\ Commit([Start EXCEPT !.doc = onChange(doc, k)], "blur", net, NoReq, NoResp)

\* the user clicks a close button of the displayed modal: closeEntityModal()
CloseClick ==
  /\ ~reloaded
  /\ \E k \in 1..Len(doc) : doc[k].display # "none"
  /\ Commit([Start EXCEPT !.doc = closeEntityModal(@)], "close", net, NoReq, NoResp)

\* Escape, or a click on the backdrop of the shown login modal: closeLoginModal()
LoginClose ==
  /\ ~reloaded
  /\ login.open
  /\ Commit([Start EXCEPT !.login = closeLoginModal(@)], "loginClose", net, NoReq, NoResp)

(***************************************************************************)
(* The entity router.  An element of the page is                           *)
(*   [tag, attrs, cls, text, anc]:                                         *)
(* attrs maps the names of the attributes it carries to their values,      *)
(* cls is its class list, anc the attributes of its ancestors, nearest     *)
(* first.                                                                  *)
(***************************************************************************)
\* el.getAttribute(n) || "", el.dataset.x || ""
Attr(attrs, n) == IF n \in DOMAIN attrs THEN attrs[n] ELSE << >>

\* el.setAttribute(n, v), el.dataset.x = v
SetAttr(attrs, n, v) == [x \in DOMAIN attrs \cup {n} |-> IF x = n THEN v ELSE attrs[x]]

\* s.split("/")
RECURSIVE SplitSlash(_)
SplitSlash(s) ==
  IF \E i \in 1..Len(s) : s[i] = "/"
  THEN LET i == CHOOSE x \in 1..Len(s) : s[x] = "/" /\ \A y \in 1..(x - 1) : s[y] # "/"
       IN  << SubSeq(s, 1, i - 1) >> \o SplitSlash(SubSeq(s, i + 1, Len(s)))
  ELSE << s >>

\* the segments of a path without the empty one a single trailing slash leaves
PathSegments(s) ==
  LET p == SplitSlash(s)
  IN  IF Len(p) > 1 /\ p[Len(p)] = << >> THEN SubSeq(p, 1, Len(p) - 1) ELSE p

S_createDash == << "c", "r", "e", "a", "t", "e", "-" >>
S_dashBtn == << "-", "b", "t", "n" >>
W_get == << "g", "e", "t" >>
W_create == << "c", "r", "e", "a", "t", "e" >>
W_update == << "u", "p", "d", "a", "t", "e" >>
W_delete == << "d", "e", "l", "e", "t", "e" >>

\* s.startsWith(p)
HasPrefix(s, p) == Len(p) <= Len(s) /\ SubSeq(s, 1, Len(p)) = p

\* el.closest("[n]")?.getAttribute(n) || "" : the value the nearest of the
\* element and its ancestors that carries the attribute n gives it
ClosestAttr(el, n) ==
  LET chain == << el.attrs >> \o el.anc
  IN  IF \E i \in 1..Len(chain) : n \in DOMAIN chain[i]
      THEN chain[CHOOSE i \in 1..Len(chain) :
                   n \in DOMAIN chain[i] /\ \A j \in 1..(i - 1) : n \notin DOMAIN chain[j]][n]
      ELSE << >>

\* getEntityFromElement(el)
getEntityFromElement(el) ==
  LET a == el.attrs
      entity == IF Attr(a, "data-open-entity") # << >> THEN Attr(a, "data-open-entity")
                ELSE IF Attr(a, "data-edit-entity") # << >> THEN Attr(a, "data-edit-entity")
                ELSE IF Attr(a, "data-delete-entity") # << >> THEN Attr(a, "data-delete-entity")
                ELSE Attr(a, "data-entity")
      idAttr == Attr(a, "id")
      \* href.match(/^\/([^\/]+)\/(get|create|update|delete)(\/|$)/i)
      p == SplitSlash(Attr(a, "href"))
  IN  IF entity # << >> THEN entity
      \* /^create-.+-btn$/i.test(idAttr); the two replace calls match case
      ELSE IF /\ Len(idAttr) >= Len(S_createDash) + 1 + Len(S_dashBtn)
              /\ HasPrefix(ToLower(idAttr), S_createDash)
              /\ EndsWith(ToLower(idAttr), S_dashBtn)
      THEN LET x == IF HasPrefix(idAttr, S_createDash)
                    THEN Drop(idAttr, Len(S_createDash)) ELSE idAttr
           IN  IF EndsWith(x, S_dashBtn) THEN Take(x, Len(x) - Len(S_dashBtn)) ELSE x
      ELSE IF /\ Len(p) >= 3 /\ p[1] = << >> /\ p[2] # << >>
              /\ ToLower(p[3]) \in {W_get, W_create, W_update, W_delete}
      THEN p[2]
      ELSE ClosestAttr(el, "data-entity")

\* href.match(/\/(update|get|delete)\/([^\/]+)\/?$/i): the identifier, empty
\* without a match
HrefId(href) ==
  LET p == PathSegments(href)
  IN  IF /\ Len(p) >= 3 /\ p[Len(p)] # << >>
         /\ ToLower(p[Len(p) - 1]) \in {W_update, W_get, W_delete}
      THEN p[Len(p)]
      ELSE << >>

\* faulty variant of getIdFromElement: the identifier is returned as found
getIdUnstripped(el) ==
  LET id == IF Attr(el.attrs, "data-id") # << >> THEN Attr(el.attrs, "data-id")
            ELSE ClosestAttr(el, "data-id")
  IN  IF id = << >> THEN HrefId(Attr(el.attrs, "href")) ELSE id

\* getIdFromElement(el)
getIdFromElement(el) ==
  LET id == IF Attr(el.attrs, "data-id") # << >> THEN Attr(el.attrs, "data-id")
            ELSE ClosestAttr(el, "data-id")
  IN  StripColon(IF id = << >> THEN HrefId(Attr(el.attrs, "href")) ELSE id)

\* normalizeEntityButtons on one element
normalizeEntityButton(el) ==
  LET a == el.attrs
      href == Attr(a, "href")
      p == PathSegments(href)
      verb == IF Len(p) >= 3 /\ p[1] = << >> /\ p[2] # << >> THEN ToLower(p[3]) ELSE << >>
      stamp(at, n, v) == IF Attr(at, n) # << >> THEN at ELSE SetAttr(at, n, v)
  IN  IF ~(\/ (el.tag = "a" /\ HasPrefix(href, << "/" >>))
           \/ el.tag = "button"
           \/ "btn" \in el.cls)
         \/ href = << >>
      THEN el
      ELSE IF Len(p) = 3 /\ verb = W_get
      THEN [el EXCEPT !.attrs = stamp(stamp(a, "data-open-entity", p[2]), "data-entity", p[2]),
                      !.cls = @ \cup {"btn-add"}]
      ELSE IF Len(p) = 4 /\ p[4] # << >> /\ verb = W_update
      THEN [el EXCEPT !.attrs = stamp(stamp(stamp(a, "data-edit-entity", p[2]),
                                            "data-entity", p[2]), "data-id", p[4]),
                      !.cls = @ \cup {"btn-edit"}]
      ELSE IF Len(p) = 4 /\ p[4] # << >> /\ verb = W_delete
      THEN [el EXCEPT !.attrs = stamp(stamp(stamp(a, "data-delete-entity", p[2]),
                                            "data-entity", p[2]), "data-id", p[4]),
                      !.cls = @ \cup {"btn-delete"}]
      ELSE el

\* t.matches("[data-open-entity], .btn-add, [id^='create-'][id$='-btn']")
MatchesOpen(t) ==
  \/ "data-open-entity" \in DOMAIN t.attrs
  \/ "btn-add" \in t.cls
  \/ HasPrefix(Attr(t.attrs, "id"), S_createDash) /\ EndsWith(Attr(t.attrs, "id"), S_dashBtn)

\* t.matches("[data-edit-entity], .btn-edit")
MatchesEdit(t) == "data-edit-entity" \in DOMAIN t.attrs \/ "btn-edit" \in t.cls

\* t.matches("[data-delete-entity], .btn-delete")
MatchesDelete(t) == "data-delete-entity" \in DOMAIN t.attrs \/ "btn-delete" \in t.cls

\* t.matches(ENTITY_BTN_SEL)
MatchesEntityBtn(t) == MatchesOpen(t) \/ MatchesEdit(t) \/ MatchesDelete(t)

\* the fetch of deleteEntity (id already stripped of its leading ":");
\* encodeURIComponent leaves the letters, digits and "-" of the model's names
DeleteReq(entity, id) ==
  [url |-> << "/" >> \o ToLower(StripSpaces(entity)) \o << "/" >> \o W_delete
             \o << "/" >> \o id \o << "/" >>,
   body |-> << >>, opts |-> WriteOpts,
   req |-> [kind |-> "delete", entity |-> entity, id |-> id, modal |-> 0, prevTxt |-> "", field |-> 0]]

\* openEntityModal(entity), called from a page other than /UserPermission/:
\* for the user-permission entity the page navigates there
openEntityModal(r, entity) ==
  IF entity = << >> THEN r
  ELSE IF isUserPermEntity(entity) THEN [r EXCEPT !.reload = TRUE]
  ELSE [r EXCEPT !.sent = @ \o << OpenReq(entity) >>]

\* editEntity(entity, id)
editEntity(r, entity, id) ==
  IF entity = << >> \/ id = << >> THEN r
  ELSE IF isUserPermEntity(entity)
  THEN [r EXCEPT !.alerts = @ \o << "Use the User Permissions page to manage permissions." >>]
  ELSE [r EXCEPT !.sent = @ \o << EditReq(entity, StripColon(id)) >>]

\* faulty variant of deleteEntity: the request is sent whatever the answer
deleteUnconfirmed(r, entity, id, ok, role) ==
  IF role = "master"
  THEN [r EXCEPT !.confirm = IF ok THEN "yes" ELSE "no",
                 !.alerts = @ \o << "Delete is disabled for Master role." >>]
  ELSE IF isUserPermEntity(entity)
  THEN [r EXCEPT !.confirm = IF ok THEN "yes" ELSE "no",
                 !.alerts = @ \o << "This is a settings page with no table. Use the User Permissions UI." >>]
  ELSE [r EXCEPT !.confirm = IF ok THEN "yes" ELSE "no",
                 !.sent = @ \o << DeleteReq(entity, StripColon(id)) >>]

\* deleteEntity(entity, id); ok is the answer to confirm()
deleteEntity(r, entity, id, ok, role) ==
  IF ~ok THEN [r EXCEPT !.confirm = "no"]
  ELSE IF role = "master"
  THEN [r EXCEPT !.confirm = "yes",
                 !.alerts = @ \o << "Delete is disabled for Master role." >>]
  ELSE IF isUserPermEntity(entity)
  THEN [r EXCEPT !.confirm = "yes",
                 !.alerts = @ \o << "This is a settings page with no table. Use the User Permissions UI." >>]
  ELSE [r EXCEPT !.confirm = "yes",
                 !.sent = @ \o << DeleteReq(entity, StripColon(id)) >>]

\* faulty variant of RouterHandler: edit and delete are called without an id
RouterHandlerNoIdCheck(r, t, ok, role) ==
  LET entity == getEntityFromElement(t)
      id == getIdFromElement(t)
  IN  IF entity = << >>
      THEN [r EXCEPT !.reload = (t.tag = "a" /\ Attr(t.attrs, "href") # << >>)]
      ELSE IF MatchesOpen(t) THEN openEntityModal(r, entity)
      ELSE IF MatchesEdit(t) THEN editEntity(r, entity, id)
      ELSE IF MatchesDelete(t) THEN deleteEntity(r, entity, id, ok, role)
      ELSE r

\* the delegated click listener, for a click whose nearest entity button is t;
\* a click the listener does not prevent on a link with a target leaves the page
RouterHandler(r, t, ok, role) ==
  LET entity == getEntityFromElement(t)
      id == getIdFromElement(t)
  IN  IF entity = << >>
      THEN [r EXCEPT !.reload = (t.tag = "a" /\ Attr(t.attrs, "href") # << >>)]
      ELSE IF MatchesOpen(t) THEN openEntityModal(r, entity)
      ELSE IF MatchesEdit(t) THEN (IF id = << >> THEN r ELSE editEntity(r, entity, id))
      ELSE IF MatchesDelete(t) THEN (IF id = << >> THEN r ELSE deleteEntity(r, entity, id, ok, role))
      ELSE r

\* the user clicks on, or inside, the entity button at position i of the page
RouterClick(i, ok) ==
  /\ ~reloaded
  /\ MatchesEntityBtn(page.els[i])
  /\ BagCardinality(net) < MaxInFlight
  /\ CommitAt(RouterHandler(Start, page.els[i], ok, page.role), "routerClick", net,
              NoReq, NoResp, i)

\* deleteEntity(entity, id) called by an inline handler of the page
DeleteCall(entity, id, ok) ==
  /\ ~reloaded
  /\ BagCardinality(net) < MaxInFlight
  /\ Commit(deleteEntity(Start, entity, id, ok, page.role), "delete", net, NoReq, NoResp)

\* /no such table|table .* does not exist|.../i.test(msg) on the error texts
\* the model's delete responses carry
TableMissing(msg) == msg = "no such table: hrpm"

\* the then-handler of deleteEntity's fetch
DeleteSettled(r, req, res) ==
  IF res.status = 401 \/ res.status = 403 \/ res.redirected
  THEN handleAuthFailure(r, "Not authenticated.")
  ELSE IF res.ct = "json"
  THEN IF res.bad
       THEN [r EXCEPT !.alerts = @ \o << "Delete request failed. Check console for details." >>]
       ELSE IF res.success THEN [r EXCEPT !.reload = TRUE]
       ELSE IF TableMissing(res.error)
               /\ ToLower(StripSpaces(req.entity)) \in {<< "u", "s", "e", "r", "p", "r", "o", "f", "i", "l", "e" >>, << "h", "r", "p", "m" >>}
       THEN [r EXCEPT !.alerts = @ \o << "Table missing. Run migrations, then retry delete." >>]
       ELSE [r EXCEPT !.alerts = @ \o << IF res.error # "" THEN res.error
                                          ELSE "Delete failed." >>]
  ELSE [r EXCEPT !.alerts = @ \o << "Server returned unexpected response while deleting." >>]

\* the bodies a delete may be answered with
DeleteResponses ==
  {Json(200, FALSE, TRUE, NoErrors, NoHtml),
   Json(200, FALSE, FALSE, NoErrors, NoHtml),
   [Json(200, FALSE, FALSE, NoErrors, NoHtml) EXCEPT !.error = "No permission"],
   [Json(500, FALSE, FALSE, NoErrors, NoHtml) EXCEPT !.error = "no such table: hrpm"],
   Json(401, FALSE, FALSE, NoErrors, NoHtml),
   Text(403, FALSE, FragText),
   Text(200, TRUE, FragText),
   Text(500, FALSE, FragText),
   BadJson}

\* the delete fetch req is answered with res
DeleteResponse(req, res) ==
  /\ ~reloaded
  /\ req.kind = "delete"
  /\ Commit(DeleteSettled(Start, req, res), "deleteResponse", Settle(net, req), req, res)

\* the codes the server proposes
V_code == << "C", "0", "1" >>

\* the bodies the next-code request may be answered with
CodeResponses ==
  {[Json(200, FALSE, TRUE, NoErrors, NoHtml) EXCEPT !.code = V_code],
   Json(200, FALSE, FALSE, NoErrors, NoHtml),
   BadJson,
   Text(200, TRUE, FragText)}

\* the next-code fetch req is answered with res
CodeResponse(req, res) ==
  /\ ~reloaded
  /\ req.kind = "code"
  /\ Commit(CodeSettled(Start, req, res), "codeResponse", Settle(net, req), req, res)

\* a click on the login link once it reads "Login"
LoginClick ==
  /\ ~reloaded
  /\ ~login.open
  /\ Commit(openLoginModal(Start), "loginClick", net, NoReq, NoResp)

\* the user submits the login form of the shown login modal
LoginSubmit ==
  /\ ~reloaded
  /\ login.present /\ login.open
  /\ BagCardinality(net) < MaxInFlight
  /\ Commit([Start EXCEPT !.sent = << LoginReq >>], "loginSubmit", net, NoReq, NoResp)

\* the bodies the login request may be answered with
LoginResponses ==
  {Json(200, FALSE, TRUE, NoErrors, NoHtml),
   Json(200, TRUE, TRUE, NoErrors, NoHtml),
   Json(200, FALSE, FALSE, NoErrors, NoHtml),
   [Json(200, FALSE, FALSE, NoErrors, NoHtml) EXCEPT !.otp = TRUE, !.error = "Enter the OTP."],
   Json(401, FALSE, FALSE, NoErrors, NoHtml),
   Text(200, TRUE, FragText),
   Text(200, FALSE, FragText),
   BadJson}

\* the login fetch req is answered with res
LoginResponse(req, res) ==
  /\ ~reloaded
  /\ req.kind = "login"
  /\ Commit(LoginSettled(Start, res), "loginResponse", Settle(net, req), req, res)

\* every text the model's users type
AllTyped ==
  { << >>, V_ab, V_digitsOk, V_digitsBad, V_mailOk, V_aadharOk, TodayDDMMYYYY }

\* every response of the model's server to a form fetch
AllFetchResponses == FetchResponses("open") \cup FetchResponses("edit")

Next ==
  \/ \E e \in Entities : OpenCreate(e)
  \/ \E e \in Entities : \E id \in Ids : OpenEdit(e, id)
  \/ \E req \in BagToSet(net) : \E res \in AllFetchResponses : FetchResponse(req, res)
  \/ \E req \in BagToSet(net) : \E res \in SaveResponses : SaveResponse(req, res)
  \/ \E req \in BagToSet(net) : NetworkFailure(req)
  \/ \E k \in 1..Len(doc) : SaveClick(k)
  \/ \E k \in 1..Len(doc) : \E i \in 1..Len(doc[k].form.fields) : \E t \in AllTyped :
       InputEvent(k, i, t)
  \/ \E k \in 1..Len(doc) : \E i \in 1..Len(doc[k].form.fields) : BlurEvent(k, i)
  \/ \E k \in 1..Len(doc) : \E i \in 1..Len(doc[k].form.fields) : ChangeEvent(k, i)
  \/ CloseClick
  \/ LoginClose

Spec == Init /\ [][Next]_vars

(***************************************************************************)
(* The submission pipeline on its own: the page from the moment a form has *)
(* been opened, without further form fetches.                              *)
(***************************************************************************)
\* the documents insertEntityModal leaves after the first form fetch of a page
OpenedForms ==
  UNION {{RenumberDoc(insertEntityModal(<< >>, e, FragNew, "Create", << >>, 1)),
          RenumberDoc(insertEntityModal(<< >>, e, FragBare, "Create", << >>, 1))}
         \cup {RenumberDoc(insertEntityModal(<< >>, e, FragEdit, "Edit", StripColon(id), 1)) :
                 id \in Ids} : e \in Entities}

SaveInit ==
  /\ doc \in OpenedForms
  /\ net = EmptyBag
  /\ login \in {[present |-> p, open |-> FALSE, err |-> "", otp |-> FALSE] : p \in BOOLEAN}
  /\ reloaded = FALSE
  /\ pw = NoFields
  /\ ev = Event("load", << >>, 0, << >>, "none", 0, NoResp, FALSE)
  /\ page = NoPage

SaveNext ==
  \/ \E req \in BagToSet(net) : \E res \in SaveResponses : SaveResponse(req, res)
  \/ \E req \in BagToSet(net) : NetworkFailure(req)
  \/ \E k \in 1..Len(doc) : SaveClick(k)
  \/ \E k \in 1..Len(doc) : \E i \in 1..Len(doc[k].form.fields) : \E t \in AllTyped :
       InputEvent(k, i, t)
  \/ \E k \in 1..Len(doc) : \E i \in 1..Len(doc[k].form.fields) : BlurEvent(k, i)
  \/ CloseClick

SaveSpec == SaveInit /\ [][SaveNext]_vars

(***************************************************************************)
(* The modal's lifecycle on its own: opening, closing, saving and the      *)
(* arrival of responses in any order; the user leaves the fields as the    *)
(* server filled them.                                                     *)
(***************************************************************************)
LifeNext ==
  \/ \E e \in Entities : OpenCreate(e)
  \/ \E e \in Entities : \E id \in Ids : OpenEdit(e, id)
  \/ \E req \in BagToSet(net) : \E res \in AllFetchResponses : FetchResponse(req, res)
  \/ \E req \in BagToSet(net) : \E res \in SaveResponses : SaveResponse(req, res)
  \/ \E req \in BagToSet(net) : NetworkFailure(req)
  \/ \E k \in 1..Len(doc) : SaveClick(k)
  \/ CloseClick
  \/ LoginClose

LifeSpec == Init /\ [][LifeNext]_vars

(***************************************************************************)
(* The save gate and the validator on their own: forms with fields of      *)
(* every category, edited field by field.  A save that fails at the        *)
(* network level leaves the button enabled, so that a click can meet a     *)
(* form the validator refuses.                                             *)
(***************************************************************************)
MailField(v) == Field("input", "email", S_email, "none", v)
PermBox(id) == [Field("input", "checkbox", S_perm, "none", V_on) EXCEPT !.id = id]
NoteField(v) == [Field("textarea", "textarea", S_note, "none", v) EXCEPT !.opt = TRUE]
\* an optional e-mail input whose name also matches the validator's date and
\* Aadhaar tests, but not the case-sensitive date selector
MixedField(v) == [Field("input", "email", S_AadharDOB, "none", v) EXCEPT !.opt = TRUE]
CodeField(v) == [Field("input", "text", S_code, "attr", v) EXCEPT !.dis = TRUE]
AadharField(v) == Field("input", "text", S_aadhar, "aria", v)
\* a date input that is not rendered (display:none by a style rule)
UnrenderedDob(v) == [Field("input", "text", S_dob, "none", v) EXCEPT !.box = FALSE]
\* a text input the validator takes for a date (/date|dob/i on the name) and
\* the date selector does not (name*='dob' is case-sensitive)
BirthField(v) == Field("input", "text", << "D", "O", "B" >>, "none", v)
AnonBox == Field("input", "checkbox", << >>, "none", V_on)
PhoneField(v) == Field("input", "text", S_phone, "none", v)

\* the forms the server renders for new records
GateForms ==
  { << NameField(<< >>), MailField(<< >>), DojField(<< >>) >>,
    << PermBox(<< "a" >>), PermBox(<< "b" >>), NoteField(<< >>) >>,
    << MixedField(<< >>), NameField(<< >>), CodeField(<< >>) >>,
    << AadharField(<< >>), UnrenderedDob(<< >>), AnonBox, PhoneField(<< >>) >>,
    << NameField(<< >>), BirthField(<< >>) >> }

\* the page once the form fs for a new record of entity e is installed
GateInstalled(e, fs) ==
  fillAutoCode(
    Result(RenumberDoc(insertEntityModal(
                  << >>, e,
                  Frag(TRUE, TRUE, RootModal(FormOf(fs), BtnOf("Save", FALSE)), NoForm),
                  "Create", << >>, 1)),
           [present |-> TRUE, open |-> FALSE, err |-> "", otp |-> FALSE],
           FALSE, << >>, 0, << >>),
    e)

GateInit ==
  /\ \E e \in Entities, fs \in GateForms :
       /\ doc = GateInstalled(e, fs).doc
       /\ net = Started(EmptyBag, GateInstalled(e, fs).sent)
  /\ login = [present |-> TRUE, open |-> FALSE, err |-> "", otp |-> FALSE]
  /\ reloaded = FALSE
  /\ pw = NoFields
  /\ ev = Event("load", << >>, 0, << >>, "none", 0, NoResp, FALSE)
  /\ page = NoPage

GateNext ==
  \/ \E k \in 1..Len(doc) : \E i \in 1..Len(doc[k].form.fields) : \E t \in AllTyped :
       InputEvent(k, i, t)
  \/ \E k \in 1..Len(doc) : \E i \in 1..Len(doc[k].form.fields) : ChangeEvent(k, i)
  \/ \E k \in 1..Len(doc) : \E i \in 1..Len(doc[k].form.fields) : BlurEvent(k, i)
  \/ \E k \in 1..Len(doc) : SaveClick(k)
  \/ \E req \in BagToSet(net) : \E res \in CodeResponses : CodeResponse(req, res)
  \/ \E req \in BagToSet(net) : NetworkFailure(req)

GateSpec == GateInit /\ [][GateNext]_vars

(***************************************************************************)
(* Date fields: one modal whose form holds a date input, the value the     *)
(* server rendered into it drawn from DateInputs                           *)
(***************************************************************************)
\* `${dd}/${mm}/${yyyy}` and `${yyyy}-${mm}-${dd}` for numbers of at most 2, 2, 4 digits
DateText(d, m, y) == PadNum(d, 2) \o << "/" >> \o PadNum(m, 2) \o << "/" >> \o PadNum(y, 4)
IsoText(d, m, y) == PadNum(y, 4) \o << "-" >> \o PadNum(m, 2) \o << "-" >> \o PadNum(d, 2)

DaysTried == {0, 1, 28, 29, 30, 31, 32}
MonthsTried == {0, 1, 2, 4, 12, 13}
YearsTried == {999, 1899, 1900, 2000, 2023, 2024, 2100, 9999}

\* values that are no dd/mm/yyyy text: empty, too short, too long, other
\* separators, a letter, surrounding blanks
OtherTexts ==
  { << >>,
    << "1", "/", "2", "/", "2", "0", "2", "4" >>,
    << "2", "9", "/", "0", "2", "/", "2", "4" >>,
    << "2", "9", ".", "0", "2", ".", "2", "0", "2", "4" >>,
    << "2", "9", "-", "0", "2", "-", "2", "0", "2", "4" >>,
    << "2", "a", "/", "0", "2", "/", "2", "0", "2", "4" >>,
    << "2", "9", "/", "0", "2", "/", "2", "0", "2", "4", "0" >>,
    << " ", "2", "9", "/", "0", "2", "/", "2", "0", "2", "4" >>,
    << "2", "9", "/", "0", "2", "/", "2", "0", "2", "4", " " >>,
    << "2", "9", "0", "2", "/", "/", "2", "0", "2", "4" >>,
    << "2", "0", "2", "4", "/", "0", "2", "/", "2", "9" >> }

DateInputs ==
  { DateText(d, m, y) : d \in DaysTried, m \in MonthsTried, y \in YearsTried }
    \cup { IsoText(d, m, y) : d \in {28, 29}, m \in {2, 12}, y \in {1900, 2023, 2024} }
    \cup OtherTexts

DateForms == { << DojField(v) >> : v \in DateInputs }
               \cup { << NoteField(V_ab), DojField(v) >> : v \in DateInputs }

DateInit ==
  /\ doc \in {RenumberDoc(insertEntityModal(
                  << >>, << "c", "l", "i", "e", "n", "t" >>,
                  Frag(TRUE, TRUE, RootModal(FormOf(fs), BtnOf("Save", FALSE)), NoForm),
                  "Create", << >>, 1)) : fs \in DateForms}
  /\ net = EmptyBag
  /\ login = [present |-> TRUE, open |-> FALSE, err |-> "", otp |-> FALSE]
  /\ reloaded = FALSE
  /\ pw = NoFields
  /\ ev = Event("load", << >>, 0, << >>, "none", 0, NoResp, FALSE)
  /\ page = NoPage

DateNext ==
  \/ \E k \in 1..Len(doc) : \E i \in 1..Len(doc[k].form.fields) : \E t \in AllTyped :
       InputEvent(k, i, t)
  \/ \E k \in 1..Len(doc) : \E i \in 1..Len(doc[k].form.fields) : BlurEvent(k, i)
  \/ \E k \in 1..Len(doc) : SaveClick(k)
  \/ \E req \in BagToSet(net) : NetworkFailure(req)

DateSpec == DateInit /\ [][DateNext]_vars

(***************************************************************************)
(* The entity router on its own: a page with one entity button or link,    *)
(* as the server rendered it, clicked while form and delete fetches are    *)
(* answered in any order                                                   *)
(***************************************************************************)
NoAttrs == [n \in {} |-> << >>]

\* a link to an update path and nothing else
LinkEdit ==
  [tag |-> "a", cls |-> {}, text |-> << "E", "d", "i", "t" >>,
   attrs |-> ("href" :> << "/", "c", "l", "i", "e", "n", "t", "/", "u", "p", "d", "a", "t", "e", "/", "4", "2", "/" >>),
   anc |-> <<  >>]

\* the same with the placeholder colon left in the path
LinkEditColon ==
  [tag |-> "a", cls |-> {}, text |-> << "E", "d", "i", "t" >>,
   attrs |-> ("href" :> << "/", "c", "l", "i", "e", "n", "t", "/", "u", "p", "d", "a", "t", "e", "/", ":", "4", "2", "/" >>),
   anc |-> <<  >>]

\* a link to a form path
LinkAdd ==
  [tag |-> "a", cls |-> {}, text |-> << "A", "d", "d" >>,
   attrs |-> ("href" :> << "/", "c", "l", "i", "e", "n", "t", "/", "g", "e", "t", "/" >>),
   anc |-> <<  >>]

\* a link to a delete path
LinkDeleteColon ==
  [tag |-> "a", cls |-> {}, text |-> << "D", "e", "l", "e", "t", "e" >>,
   attrs |-> ("href" :> << "/", "c", "l", "i", "e", "n", "t", "/", "d", "e", "l", "e", "t", "e", "/", ":", "4", "2", "/" >>),
   anc |-> <<  >>]

\* a link whose path is written in capitals
LinkUpper ==
  [tag |-> "a", cls |-> {"btn-edit"}, text |-> << "E", "d", "i", "t" >>,
   attrs |-> ("href" :> << "/", "C", "L", "I", "E", "N", "T", "/", "U", "P", "D", "A", "T", "E", "/", "4", "2" >>),
   anc |-> <<  >>]

\* a link styled as an edit button whose path names no known operation
LinkOther ==
  [tag |-> "a", cls |-> {"btn-edit"}, text |-> << "c", "l", "i", "e", "n", "t" >>,
   attrs |-> ("href" :> << "/", "c", "l", "i", "e", "n", "t", "/", "e", "d", "i", "t", "/", "4", "2", "/" >>),
   anc |-> <<  >>]

\* a button named by the create-<entity>-btn convention
CreateBtn ==
  [tag |-> "button", cls |-> {}, text |-> << "h", "r", "p", "m" >>,
   attrs |-> ("id" :> << "c", "r", "e", "a", "t", "e", "-", "c", "l", "i", "e", "n", "t", "-", "b", "t", "n" >>),
   anc |-> <<  >>]

\* the same convention written with capitals
CreateBtnCaps ==
  [tag |-> "button", cls |-> {"btn-add"}, text |-> << "A", "d", "d" >>,
   attrs |-> ("id" :> << "C", "r", "e", "a", "t", "e", "-", "c", "l", "i", "e", "n", "t", "-", "B", "t", "n" >>),
   anc |-> <<  >>]

\* a button with every source of an entity
CreateBtnAll ==
  [tag |-> "button", cls |-> {}, text |-> << "A", "d", "d" >>,
   attrs |-> ("data-open-entity" :> << "L", "o", "a", "n", " ", "A", "p", "p" >>) @@ ("id" :> << "c", "r", "e", "a", "t", "e", "-", "c", "l", "i", "e", "n", "t", "-", "b", "t", "n" >>) @@ ("href" :> << "/", "h", "r", "p", "m", "/", "g", "e", "t", "/" >>),
   anc |-> << ("data-entity" :> << "u", "s", "e", "r", "p", "r", "o", "f", "i", "l", "e" >>) >>]

\* an id, a link target and an ancestor
CreateBtnLink ==
  [tag |-> "span", cls |-> {}, text |-> << "A", "d", "d" >>,
   attrs |-> ("id" :> << "c", "r", "e", "a", "t", "e", "-", "c", "l", "i", "e", "n", "t", "-", "b", "t", "n" >>) @@ ("href" :> << "/", "h", "r", "p", "m", "/", "g", "e", "t", "/" >>),
   anc |-> << ("data-entity" :> << "u", "s", "e", "r", "p", "r", "o", "f", "i", "l", "e" >>) >>]

\* a span styled as an edit button, with a link target and ancestors
SpanEdit ==
  [tag |-> "span", cls |-> {"btn-edit"}, text |-> << "E", "d", "i", "t" >>,
   attrs |-> ("href" :> << "/", "c", "l", "i", "e", "n", "t", "/", "u", "p", "d", "a", "t", "e", "/", ":", "4", "2" >>),
   anc |-> << NoAttrs, ("data-entity" :> << "h", "r", "p", "m" >>) >>]

\* an edit button in a table row that carries the entity and the id
RowEdit ==
  [tag |-> "button", cls |-> {"btn-edit"}, text |-> << "E", "d", "i", "t" >>,
   attrs |-> NoAttrs,
   anc |-> << NoAttrs, ("data-entity" :> << "h", "r", "p", "m" >>) @@ ("data-id" :> << ":", "9" >>), ("data-entity" :> << "c", "l", "i", "e", "n", "t" >>) @@ ("data-id" :> << "4", "2" >>) >>]

\* a delete button with its own id inside such a row
RowDelete ==
  [tag |-> "button", cls |-> {"btn-delete"}, text |-> << "D", "e", "l", "e", "t", "e" >>,
   attrs |-> ("data-id" :> << ":", "7" >>) @@ ("href" :> << "/", "c", "l", "i", "e", "n", "t", "/", "d", "e", "l", "e", "t", "e", "/", "4", "2", "/" >>),
   anc |-> << ("data-entity" :> << "h", "r", "p", "m" >>) @@ ("data-id" :> << "9" >>) >>]

\* a delete button that takes the id from its link target
RowDeleteLink ==
  [tag |-> "span", cls |-> {}, text |-> << "D", "e", "l", "e", "t", "e" >>,
   attrs |-> ("data-delete-entity" :> << "h", "r", "p", "m" >>) @@ ("href" :> << "/", "c", "l", "i", "e", "n", "t", "/", "d", "e", "l", "e", "t", "e", "/", ":", "4", "2", "/" >>),
   anc |-> << ("data-entity" :> << "c", "l", "i", "e", "n", "t" >>) >>]

\* an edit button whose own data-id is empty, inside a row with an id
EmptyIdEdit ==
  [tag |-> "button", cls |-> {"btn-edit"}, text |-> << "E", "d", "i", "t" >>,
   attrs |-> ("data-entity" :> << "c", "l", "i", "e", "n", "t" >>) @@ ("data-id" :> << >>),
   anc |-> << ("data-id" :> << "9" >>) >>]

\* an add button whose own data-entity is empty, inside a section with an entity
EmptyEntityAdd ==
  [tag |-> "button", cls |-> {"btn-add"}, text |-> << "c", "l", "i", "e", "n", "t" >>,
   attrs |-> ("data-entity" :> << >>),
   anc |-> << ("data-entity" :> << "c", "l", "i", "e", "n", "t" >>) >>]

\* an add button that names its entity only in its text
TextOnlyAdd ==
  [tag |-> "button", cls |-> {"btn-add"}, text |-> << "c", "l", "i", "e", "n", "t" >>,
   attrs |-> NoAttrs,
   anc |-> <<  >>]

\* an edit button without any identifier
NoIdEdit ==
  [tag |-> "button", cls |-> {}, text |-> << "E", "d", "i", "t" >>,
   attrs |-> ("data-edit-entity" :> << "c", "l", "i", "e", "n", "t" >>),
   anc |-> <<  >>]

\* an add button of the user-permission page
PermAdd ==
  [tag |-> "button", cls |-> {"btn-add"}, text |-> << "A", "d", "d" >>,
   attrs |-> ("data-entity" :> << "U", "s", "e", "r", "P", "e", "r", "m", "i", "s", "s", "i", "o", "n" >>),
   anc |-> <<  >>]

\* edit and delete buttons of the user-permission page
PermEdit ==
  [tag |-> "button", cls |-> {}, text |-> << "E", "d", "i", "t" >>,
   attrs |-> ("data-edit-entity" :> << "u", "s", "e", "r", "p", "e", "r", "m", "i", "s", "s", "i", "o", "n", "s" >>) @@ ("data-id" :> << "4", "2" >>),
   anc |-> <<  >>]

\* a delete button without any identifier
NoIdDelete ==
  [tag |-> "button", cls |-> {"btn-delete"}, text |-> << "4", "2" >>,
   attrs |-> ("data-entity" :> << "c", "l", "i", "e", "n", "t" >>),
   anc |-> <<  >>]

PermDelete ==
  [tag |-> "button", cls |-> {}, text |-> << "D", "e", "l", "e", "t", "e" >>,
   attrs |-> ("data-delete-entity" :> << "u", "s", "e", "r", "p", "e", "r", "m", "i", "s", "s", "i", "o", "n", "s" >>) @@ ("data-id" :> << "4", "2" >>),
   anc |-> <<  >>]

\* a button with several entity attributes
ManyAttrs ==
  [tag |-> "button", cls |-> {}, text |-> << "E", "d", "i", "t" >>,
   attrs |-> ("data-edit-entity" :> << "c", "l", "i", "e", "n", "t" >>) @@ ("data-delete-entity" :> << "h", "r", "p", "m" >>) @@ ("data-entity" :> << "u", "s", "e", "r", "p", "r", "o", "f", "i", "l", "e" >>) @@ ("data-id" :> << "4", "2" >>),
   anc |-> <<  >>]

Markup ==
  { LinkEdit,
    LinkEditColon,
    LinkAdd,
    LinkDeleteColon,
    LinkUpper,
    LinkOther,
    CreateBtn,
    CreateBtnCaps,
    CreateBtnAll,
    CreateBtnLink,
    SpanEdit,
    RowEdit,
    RowDelete,
    RowDeleteLink,
    EmptyIdEdit,
    EmptyEntityAdd,
    TextOnlyAdd,
    NoIdEdit,
    NoIdDelete,
    PermAdd,
    PermEdit,
    PermDelete,
    ManyAttrs }

\* the element as the click listener finds it: elements that are in the
\* document when it has loaded have been through normalizeEntityButtons,
\* elements rendered later have not
RouterInit ==
  /\ doc = << >>
  /\ net = EmptyBag
  /\ login = [present |-> TRUE, open |-> FALSE, err |-> "", otp |-> FALSE]
  /\ reloaded = FALSE
  /\ pw = NoFields
  /\ ev = Event("load", << >>, 0, << >>, "none", 0, NoResp, FALSE)
  /\ page \in { [role |-> r, els |-> << e >>] :
                  r \in {"", "master"},
                  e \in Markup \cup { normalizeEntityButton(m) : m \in Markup } }

RouterNext ==
  \/ \E i \in 1..Len(page.els) : \E ok \in BOOLEAN : RouterClick(i, ok)
  \/ \E e \in Entities : \E id \in Ids : OpenEdit(e, id)
  \/ \E e \in Entities : \E id \in Ids : \E ok \in BOOLEAN : DeleteCall(e, id, ok)
  \/ \E req \in BagToSet(net) : \E res \in AllFetchResponses : FetchResponse(req, res)
  \/ \E req \in BagToSet(net) : \E res \in DeleteResponses : DeleteResponse(req, res)
  \/ \E req \in BagToSet(net) : NetworkFailure(req)

RouterSpec == RouterInit /\ [][RouterNext]_vars

(***************************************************************************)
(* Request paths: the entity buttons of a page are clicked, the page's      *)
(* inline handlers open image previews, forms are installed.               *)
(***************************************************************************)
\* the entities the page's inline handlers name
PathEntities ==
  { << "C", "L", "I", "E", "N", "T" >>,
    << " ", "L", "o", "a", "n", "\t", "A", "p", "p", " " >> }

\* the bodies a form fetch is answered with here
PathFetchResponses ==
  {Json(200, FALSE, TRUE, NoErrors, f) : f \in {FormFor("open"), FormFor("edit"), FragBare}}
  \cup {Text(404, FALSE, FragText)}

\* openImageModal(id, entity, field) called by an inline handler of the page
OpenImage(entity, id) ==
  /\ ~reloaded
  /\ BagCardinality(net) < MaxInFlight
  /\ entity # << >>
  /\ Commit([Start EXCEPT !.sent = << ImageReq(entity, StripColon(id)) >>], "image", net,
            NoReq, NoResp)

\* the bodies openImageModal's fetch may be answered with
ImageResponses ==
  {Json(200, FALSE, TRUE, NoErrors, FragText),
   Json(200, FALSE, TRUE, NoErrors, NoHtml),
   BadJson,
   Text(200, FALSE, FragText),
   Text(403, FALSE, FragText)}

\* the fetch req of openImageModal is answered with res
ImageResponse(req, res) ==
  /\ ~reloaded
  /\ req.kind = "image"
  /\ Commit(ImageSettled(Start, res), "imageResponse", Settle(net, req), req, res)

PathNext ==
  \/ \E i \in 1..Len(page.els) : \E ok \in BOOLEAN : RouterClick(i, ok)
  \/ \E e \in PathEntities : \E id \in Ids : OpenImage(e, id)
  \/ \E req \in BagToSet(net) : \E res \in PathFetchResponses : FetchResponse(req, res)
  \/ \E req \in BagToSet(net) : \E res \in DeleteResponses : DeleteResponse(req, res)
  \/ \E req \in BagToSet(net) : \E res \in ImageResponses : ImageResponse(req, res)
  \/ \E req \in BagToSet(net) : NetworkFailure(req)

PathSpec == RouterInit /\ [][PathNext]_vars

(***************************************************************************)
(* Normalisation: normalizeEntityButtons runs over the page, whose entity  *)
(* buttons are clicked before and after.                                   *)
(***************************************************************************)
\* a link to another record inside a table row that carries its own id
RowLink ==
  [tag |-> "a", cls |-> {"btn-edit"}, text |-> << "E", "d", "i", "t" >>,
   attrs |-> ("href" :> << "/", "c", "l", "i", "e", "n", "t", "/", "u", "p", "d", "a", "t", "e", "/", "4", "2", "/" >>),
   anc |-> << NoAttrs, ("data-entity" :> << "h", "r", "p", "m" >>) @@ ("data-id" :> << "7" >>) >>]

\* a link that carries the entity as the page displays it
NamedLink ==
  [tag |-> "a", cls |-> {"btn-edit"}, text |-> << "E", "d", "i", "t" >>,
   attrs |-> ("data-entity" :> << "L", "o", "a", "n", " ", "A", "p", "p" >>) @@ ("data-id" :> << "4", "2" >>) @@ ("href" :> << "/", "l", "o", "a", "n", "a", "p", "p", "/", "u", "p", "d", "a", "t", "e", "/", "4", "2", "/" >>),
   anc |-> << >>]

\* a delete link whose own data-id is present and empty
EmptyIdLink ==
  [tag |-> "a", cls |-> {"btn-delete"}, text |-> << "D", "e", "l", "e", "t", "e" >>,
   attrs |-> ("data-id" :> << >>) @@ ("href" :> << "/", "c", "l", "i", "e", "n", "t", "/", "d", "e", "l", "e", "t", "e", "/", "4", "2", "/" >>),
   anc |-> << >>]

NormMarkup == Markup \cup {RowLink, NamedLink, EmptyIdLink}

\* normalizeEntityButtons(document)
normalizeEntityButtons(p) ==
  [p EXCEPT !.els = [i \in 1..Len(p.els) |-> normalizeEntityButton(p.els[i])]]

\* normalizeEntityButtons(document) is run
Normalize ==
  /\ ~reloaded
  /\ page' = normalizeEntityButtons(page)
  /\ ev' = Event("normalize", << >>, 0, << >>, "none", 0, NoResp, FALSE)
  /\ UNCHANGED << doc, net, login, reloaded, pw >>

NormInit ==
  /\ doc = << >>
  /\ net = EmptyBag
  /\ login = [present |-> TRUE, open |-> FALSE, err |-> "", otp |-> FALSE]
  /\ reloaded = FALSE
  /\ pw = NoFields
  /\ ev = Event("load", << >>, 0, << >>, "none", 0, NoResp, FALSE)
  /\ page \in { [role |-> r, els |-> << e >>] : r \in {"", "master"}, e \in NormMarkup }

NormNext ==
  \/ Normalize
  \/ \E i \in 1..Len(page.els) : \E ok \in BOOLEAN : RouterClick(i, ok)
  \/ \E req \in BagToSet(net) : \E res \in PathFetchResponses : FetchResponse(req, res)
  \/ \E req \in BagToSet(net) : \E res \in DeleteResponses : DeleteResponse(req, res)
  \/ \E req \in BagToSet(net) : NetworkFailure(req)

NormSpec == NormInit /\ [][NormNext]_vars

(***************************************************************************)
(* Password inputs and their visibility toggles.  A node of pw.nodes is    *)
(*   [k, uid, type, cls, decoy, wired, auto, manual, target, anc]:         *)
(* k is "input" or "toggle"; type, decoy (what isDecoyOrHidden answers),   *)
(* wired (data-eye-wired="1") and auto (autocomplete) describe an input;   *)
(* manual (data-toggle-pass) and target (the uid of the input that         *)
(* aria-controls or data-target names, 0 without) describe a toggle; anc   *)
(* is the chain of ancestors [cid, cls], nearest first.  Elements without  *)
(* children do not occur, so two nodes are adjacent siblings exactly when  *)
(* they follow each other and have the same chain.                         *)
(***************************************************************************)
PwInput(uid, type, cls, decoy, auto, anc) ==
  [k |-> "input", uid |-> uid, type |-> type, cls |-> cls, decoy |-> decoy, wired |-> FALSE,
   auto |-> auto, manual |-> FALSE, target |-> 0, anc |-> anc]

EyeToggle(uid, cls, manual, target, anc) ==
  [k |-> "toggle", uid |-> uid, type |-> "", cls |-> cls, decoy |-> FALSE, wired |-> FALSE,
   auto |-> "", manual |-> manual, target |-> target, anc |-> anc]

PwBox(cid, cls) == [cid |-> cid, cls |-> cls]

\* F applied to the value of x: the statements of a function run one after
\* the other, each on the document the one before it left
With(x, F(_)) == CHOOSE r \in {F(v) : v \in {x}} : TRUE

\* el.matches(TOGGLE_SEL)
MatchesToggleSel(n) ==
  n.k = "toggle" /\ (n.manual \/ n.cls \cap {"js-eye", "toggle-password", "eye-icon"} # {})

\* el.closest("." + c): the cid of the nearest ancestor of class c, 0 without
ClosestBox(n, c) ==
  IF \E i \in 1..Len(n.anc) : n.anc[i].cls = c
  THEN n.anc[CHOOSE i \in 1..Len(n.anc) :
               n.anc[i].cls = c /\ \A j \in 1..(i - 1) : n.anc[j].cls # c].cid
  ELSE 0

\* el.parentElement
ParentBox(n) == n.anc[1].cid

\* el is a descendant of the element cid; scope 0 is the document
Inside(n, cid) == cid = 0 \/ \E i \in 1..Len(n.anc) : n.anc[i].cid = cid

\* the position in the document of the node uid, and the node
PosOf(nodes, uid) == CHOOSE i \in 1..Len(nodes) : nodes[i].uid = uid
NodeOf(nodes, uid) == nodes[PosOf(nodes, uid)]

MaxOf(S) == IF S = {} THEN 0 ELSE CHOOSE y \in S : \A z \in S : z <= y

\* identities for the elements document.createElement makes
FreshEyeUid(nodes) == 1 + MaxOf({nodes[i].uid : i \in 1..Len(nodes)})
FreshCid(nodes) ==
  1 + MaxOf(UNION {{nodes[i].anc[j].cid : j \in 1..Len(nodes[i].anc)} : i \in 1..Len(nodes)})

\* the mutation records the observer is given; none before it observes
Queue(st, recs) == IF st.observing THEN [st EXCEPT !.records = @ \o recs] ELSE st

RecAdded(el, id) == [kind |-> "added", el |-> el, id |-> id]
RecAttr(id) == [kind |-> "attr", el |-> "input", id |-> id]
RecOther == [kind |-> "other", el |-> "none", id |-> 0]

\* the uids of the nodes of the scope that satisfy a selector, in document
\* order: the static list scope.querySelectorAll returns
RECURSIVE UidsWhere(_, _)
UidsWhere(nodes, ok) ==
  IF nodes = << >> THEN << >>
  ELSE (IF Head(nodes).uid \in ok THEN << Head(nodes).uid >> ELSE << >>)
         \o UidsWhere(Tail(nodes), ok)

\* scope.querySelectorAll('input[type="password"]')
PasswordInputs(nodes, scope) ==
  UidsWhere(nodes, {nodes[i].uid : i \in {j \in 1..Len(nodes) :
     nodes[j].k = "input" /\ nodes[j].type = "password" /\ Inside(nodes[j], scope)}})

\* the wrapper of one input: a new div.pro-passwrap is put in its place and
\* the input moved into it
WrapInput(st, uid) ==
  LET i == PosOf(st.nodes, uid)
      c == FreshCid(st.nodes)
  IN  Queue([st EXCEPT !.nodes[i].anc = << PwBox(c, "pro-passwrap") >> \o @],
            << RecAdded("box", c), RecOther, RecAdded("input", uid) >>)

\* container.appendChild(btn) for the button wirePasswordEyes creates: it
\* follows the last node inside the container
AppendEye(st, uid, cid) ==
  LET inp == NodeOf(st.nodes, uid)
      at == CHOOSE i \in 1..Len(st.nodes) :
              Inside(st.nodes[i], cid) /\ \A j \in (i + 1)..Len(st.nodes) : ~Inside(st.nodes[j], cid)
      w == CHOOSE j \in 1..Len(inp.anc) : inp.anc[j].cid = cid
      btn == EyeToggle(FreshEyeUid(st.nodes), {"eye-icon"}, FALSE, uid,
                    SubSeq(inp.anc, w, Len(inp.anc)))
  IN  Queue([st EXCEPT !.nodes = SubSeq(@, 1, at) \o << btn >> \o SubSeq(@, at + 1, Len(@))],
            << RecOther >>)

\* the body of the forEach of wirePasswordEyes for one input
WireOne(st, uid) ==
  LET inp == NodeOf(st.nodes, uid)
      mark(s) == [s EXCEPT !.nodes[PosOf(s.nodes, uid)].wired = TRUE]
  IN  IF inp.wired THEN st
      ELSE IF inp.decoy THEN mark(st)
      ELSE With(IF ClosestBox(inp, "pro-passwrap") = 0 THEN WrapInput(st, uid) ELSE st,
                LAMBDA wrapped :
                  LET container == ClosestBox(NodeOf(wrapped.nodes, uid), "pro-passwrap")
                  IN  IF \E j \in 1..Len(wrapped.nodes) :
                           /\ MatchesToggleSel(wrapped.nodes[j])
                           /\ Inside(wrapped.nodes[j], container)
                      THEN mark(wrapped)
                      ELSE With(AppendEye(wrapped, uid, container), LAMBDA a : mark(a)))

RECURSIVE WireAll(_, _)
WireAll(st, uids) ==
  IF uids = << >> THEN st
  ELSE With(WireOne(st, Head(uids)), LAMBDA s : WireAll(s, Tail(uids)))

\* the inputs dedupePasswordEyes visits
DedupeInputs(nodes, scope) ==
  UidsWhere(nodes, {nodes[i].uid : i \in {j \in 1..Len(nodes) :
     /\ nodes[j].k = "input" /\ Inside(nodes[j], scope)
     /\ \/ nodes[j].type = "password"
        \/ nodes[j].type = "text" /\ "password" \in nodes[j].cls
        \/ "password-input" \in nodes[j].cls}})

\* inp.closest('.pro-passwrap') || inp.closest('.input-group') ||
\* inp.closest('.form-group') || inp.parentElement
EyeContainer(inp) ==
  IF ClosestBox(inp, "pro-passwrap") # 0 THEN ClosestBox(inp, "pro-passwrap")
  ELSE IF ClosestBox(inp, "input-group") # 0 THEN ClosestBox(inp, "input-group")
  ELSE IF ClosestBox(inp, "form-group") # 0 THEN ClosestBox(inp, "form-group")
  ELSE ParentBox(inp)

\* the nodes at the positions P are removed, one record each
RemoveNodes(st, P) ==
  LET RECURSIVE Others(_)
      Others(n) == IF n = 0 THEN << >> ELSE << RecOther >> \o Others(n - 1)
      RECURSIVE Keep(_)
      Keep(i) == IF i > Len(st.nodes) THEN << >>
                 ELSE (IF i \in P THEN << >> ELSE << st.nodes[i] >>) \o Keep(i + 1)
  IN  Queue([st EXCEPT !.nodes = Keep(1)], Others(Cardinality(P)))

\* the first of a set of positions
FirstPos(P) == CHOOSE i \in P : \A j \in P : i <= j

\* the toggle dedupePasswordEyes keeps among those at the positions T for the
\* input at position p
KeptToggle(nodes, T, p) ==
  LET manual == {i \in T : nodes[i].manual}
      beside == {i \in T : nodes[i].anc = nodes[p].anc /\ (i = p + 1 \/ i = p - 1)}
  IN  IF manual # {} THEN FirstPos(manual)
      ELSE IF beside # {} THEN FirstPos(beside)
      ELSE FirstPos(T)

\* faulty variant of DedupeOne: one run removes a single extra toggle
DedupeOneExtra(st, uid) ==
  LET p == PosOf(st.nodes, uid)
      container == EyeContainer(st.nodes[p])
      T == {i \in 1..Len(st.nodes) :
              MatchesToggleSel(st.nodes[i]) /\ Inside(st.nodes[i], container)}
  IN  IF Cardinality(T) <= 1 THEN st
      ELSE RemoveNodes(st, {FirstPos(T \ {KeptToggle(st.nodes, T, p)})})

\* the body of the first forEach of dedupePasswordEyes for one input
DedupeOne(st, uid) ==
  LET p == PosOf(st.nodes, uid)
      container == EyeContainer(st.nodes[p])
      T == {i \in 1..Len(st.nodes) :
              MatchesToggleSel(st.nodes[i]) /\ Inside(st.nodes[i], container)}
  IN  IF Cardinality(T) <= 1 THEN st
      ELSE RemoveNodes(st, T \ {KeptToggle(st.nodes, T, p)})

RECURSIVE DedupeAll(_, _)
DedupeAll(st, uids) ==
  IF uids = << >> THEN st
  ELSE With(DedupeOne(st, Head(uids)), LAMBDA s : DedupeAll(s, Tail(uids)))

\* the second forEach of dedupePasswordEyes
KillOutsiders(st, scope) ==
  RemoveNodes(st, {i \in 1..Len(st.nodes) :
    /\ st.nodes[i].k = "toggle" /\ Inside(st.nodes[i], scope)
    /\ st.nodes[i].cls \cap {"toggle-password", "password-eye", "show-pass"} # {}
    /\ ClosestBox(st.nodes[i], "pro-passwrap") = 0})

\* dedupePasswordEyes(root)
dedupePasswordEyes(st, scope) ==
  With(DedupeAll(st, DedupeInputs(st.nodes, scope)), LAMBDA s : KillOutsiders(s, scope))

\* wirePasswordEyes(root)
wirePasswordEyes(st, scope) ==
  With(WireAll(st, PasswordInputs(st.nodes, scope)), LAMBDA s : dedupePasswordEyes(s, scope))

\* reMaskPasswords(scope): inp.type = 'password' queues a record whether or
\* not the value changes
RemaskInputs(nodes, scope) ==
  UidsWhere(nodes, {nodes[i].uid : i \in {j \in 1..Len(nodes) :
     /\ nodes[j].k = "input" /\ Inside(nodes[j], scope)
     /\ \/ "password-input" \in nodes[j].cls
        \/ /\ nodes[j].type = "text" /\ nodes[j].auto = "new-password"
           /\ ClosestBox(nodes[j], "pro-passwrap") # 0}})

RECURSIVE RemaskAll(_, _)
RemaskAll(st, uids) ==
  IF uids = << >> THEN st
  ELSE With(Queue([st EXCEPT !.nodes[PosOf(st.nodes, Head(uids))].type = "password"],
                  << RecAttr(Head(uids)) >>),
            LAMBDA s : RemaskAll(s, Tail(uids)))

reMaskPasswords(st, scope) == RemaskAll(st, RemaskInputs(st.nodes, scope))

\* the scope of an element without descendants
NoScope == 0 - 1

\* enforce(node) of startEyeObserver
enforce(st, scope) ==
  With(wirePasswordEyes(st, scope),
       LAMBDA a : With(dedupePasswordEyes(a, scope), LAMBDA b : reMaskPasswords(b, scope)))

\* from how many records on the callback sweeps the document when none of
\* them touched a password input
SweepAbove == 10

\* the loop of the MutationObserver callback over the records it is given;
\* what a record's node matches is asked when the callback runs
RECURSIVE HandleRecords(_, _, _)
HandleRecords(st, recs, touched) ==
  IF recs = << >> THEN [st |-> st, touched |-> touched]
  ELSE LET m == Head(recs)
           n == NodeOf(st.nodes, m.id)
           rest(s) == HandleRecords(s, Tail(recs), TRUE)
       IN  IF m.kind = "added" /\ m.el = "box"
           THEN With(enforce(st, m.id), rest)
           ELSE IF m.kind = "added" /\ m.el = "input" /\ n.type = "password"
           THEN With(enforce(st, NoScope), rest)
           ELSE IF m.kind = "attr" /\ n.type = "password"
           THEN With(enforce(st, IF ClosestBox(n, "pro-passwrap") # 0
                                 THEN ClosestBox(n, "pro-passwrap") ELSE ParentBox(n)),
                     rest)
           ELSE HandleRecords(st, Tail(recs), touched)

\* the MutationObserver callback
ObserverCallback(st) ==
  With(HandleRecords([st EXCEPT !.records = << >>, !.calls = 1 - @], st.records, FALSE),
       LAMBDA h : IF ~h.touched /\ Len(st.records) > SweepAbove
                  THEN enforce(h.st, 0) ELSE h.st)

\* the input the delegated click handler finds for a toggle, 0 without
ControlledInput(nodes, t) ==
  LET wrap == IF ClosestBox(t, "pro-passwrap") # 0 THEN ClosestBox(t, "pro-passwrap")
              ELSE IF ClosestBox(t, "input-group") # 0 THEN ClosestBox(t, "input-group")
              ELSE ParentBox(t)
      found == {i \in 1..Len(nodes) :
                  /\ nodes[i].k = "input" /\ Inside(nodes[i], wrap)
                  /\ \/ nodes[i].type = "password"
                     \/ nodes[i].type = "text" /\ "password" \in nodes[i].cls
                     \/ "password-input" \in nodes[i].cls}
  IN  IF t.target # 0 /\ \E i \in 1..Len(nodes) : nodes[i].uid = t.target THEN t.target
      ELSE IF found # {} THEN nodes[FirstPos(found)].uid
      ELSE 0

\* the delegated click handler of setupGlobalEyeToggles for a click on the
\* toggle uid; the icon classes it flips on the toggle are not part of the
\* state, the four records they queue are
TogglePassword(st, uid) ==
  LET inp == ControlledInput(st.nodes, NodeOf(st.nodes, uid))
  IN  IF inp = 0 THEN st
      ELSE Queue([st EXCEPT !.nodes[PosOf(st.nodes, inp)].type =
                              IF @ = "password" THEN "text" ELSE "password"],
                 << RecAttr(inp), RecOther, RecOther, RecOther, RecOther >>)

\* a handler that works on the password inputs only
EyeStep(op, st) ==
  /\ pw' = st
  /\ ev' = Event(op, << >>, 0, << >>, "none", 0, NoResp, FALSE)
  /\ UNCHANGED << doc, net, login, reloaded, page >>

\* the DOMContentLoaded listener, lines 10 to 13
EyeLoad ==
  /\ ~pw.observing
  /\ EyeStep("eyeLoad",
             With(enforce(pw, 0), LAMBDA s : [s EXCEPT !.observing = TRUE, !.sweep = TRUE]))

\* the timer startEyeObserver sets fires; a task starts only when the
\* observer has been given the records queued so far
EyeSweep ==
  /\ pw.sweep /\ pw.records = << >>
  /\ EyeStep("eyeSweep",
             With(wirePasswordEyes([pw EXCEPT !.sweep = FALSE], 0),
                  LAMBDA s : dedupePasswordEyes(s, 0)))

\* the observer is given the queued records
EyeObserver ==
  /\ pw.records # << >>
  /\ EyeStep("eyeObserver", ObserverCallback(pw))

\* a click on the toggle uid
EyeClick(uid) ==
  /\ pw.observing /\ pw.records = << >>
  /\ \E i \in 1..Len(pw.nodes) : pw.nodes[i].uid = uid /\ MatchesToggleSel(pw.nodes[i])
  /\ EyeStep("eyeClick", TogglePassword(pw, uid))

\* the largest number of nodes scripts of the page inject up to
MaxEyeNodes == 6

\* another script of the page appends a toggle to the parent of the input
\* uid, and n - 1 elements elsewhere that have nothing to do with passwords
ScriptInjects(uid, n) ==
  /\ pw.observing /\ pw.records = << >>
  /\ Len(pw.nodes) < MaxEyeNodes
  /\ \E i \in 1..Len(pw.nodes) : pw.nodes[i].uid = uid /\ pw.nodes[i].k = "input"
  /\ LET inp == NodeOf(pw.nodes, uid)
         at == CHOOSE i \in 1..Len(pw.nodes) :
                 /\ Inside(pw.nodes[i], ParentBox(inp))
                 /\ \A j \in (i + 1)..Len(pw.nodes) : ~Inside(pw.nodes[j], ParentBox(inp))
         eye == EyeToggle(FreshEyeUid(pw.nodes), {"js-eye"}, FALSE, 0, inp.anc)
     IN  EyeStep("scriptInjects",
                 Queue([pw EXCEPT !.nodes = SubSeq(@, 1, at) \o << eye >> \o SubSeq(@, at + 1, Len(@))],
                       [k \in 1..n |-> RecOther]))

\* pages with password inputs, as the server renders them
PlainField ==
  << PwInput(1, "password", {}, FALSE, "", << PwBox(2, "form-group"), PwBox(1, "form") >>) >>

ClassField ==
  << PwInput(1, "password", {"password-input"}, FALSE, "new-password",
             << PwBox(2, "form-group"), PwBox(1, "form") >>) >>

\* a wrapper with the page's own toggle and two more
ManualField ==
  << PwInput(1, "password", {}, FALSE, "", << PwBox(2, "pro-passwrap"), PwBox(1, "form") >>),
     EyeToggle(2, {"eye-icon"}, FALSE, 0, << PwBox(2, "pro-passwrap"), PwBox(1, "form") >>),
     EyeToggle(3, {"js-eye"}, TRUE, 1, << PwBox(2, "pro-passwrap"), PwBox(1, "form") >>),
     EyeToggle(4, {"toggle-password"}, FALSE, 0, << PwBox(2, "pro-passwrap"), PwBox(1, "form") >>) >>

\* an input group with the page's own toggle beside the input
GroupField ==
  << PwInput(1, "password", {}, FALSE, "", << PwBox(2, "input-group"), PwBox(1, "form") >>),
     EyeToggle(2, {"js-eye"}, TRUE, 0, << PwBox(2, "input-group"), PwBox(1, "form") >>) >>

\* a hidden decoy at the top of a form with a password and its confirmation
DecoyForm ==
  << PwInput(1, "password", {}, TRUE, "", << PwBox(1, "form") >>),
     PwInput(2, "password", {}, FALSE, "", << PwBox(2, "pro-passwrap"), PwBox(1, "form") >>),
     EyeToggle(3, {"eye-icon"}, FALSE, 0, << PwBox(2, "pro-passwrap"), PwBox(1, "form") >>),
     PwInput(4, "password", {}, FALSE, "", << PwBox(3, "pro-passwrap"), PwBox(1, "form") >>),
     EyeToggle(5, {"eye-icon"}, FALSE, 0, << PwBox(3, "pro-passwrap"), PwBox(1, "form") >>) >>

\* a password shown as text when the page arrives
ShownField ==
  << PwInput(1, "text", {}, FALSE, "new-password", << PwBox(2, "pro-passwrap"), PwBox(1, "form") >>),
     EyeToggle(2, {"eye-icon"}, FALSE, 0, << PwBox(2, "pro-passwrap"), PwBox(1, "form") >>) >>

\* a toggle of an older page outside any wrapper
LegacyField ==
  << PwInput(1, "password", {}, FALSE, "", << PwBox(2, "form-group"), PwBox(1, "form") >>),
     EyeToggle(2, {"show-pass"}, FALSE, 0, << PwBox(2, "form-group"), PwBox(1, "form") >>) >>

EyeMarkup ==
  {PlainField, ClassField, ManualField, GroupField, DecoyForm, ShownField, LegacyField}

EyeInit ==
  /\ doc = << >>
  /\ net = EmptyBag
  /\ login = [present |-> TRUE, open |-> FALSE, err |-> "", otp |-> FALSE]
  /\ reloaded = FALSE
  /\ ev = Event("load", << >>, 0, << >>, "none", 0, NoResp, FALSE)
  /\ page = NoPage
  /\ pw \in { [NoFields EXCEPT !.nodes = m] : m \in EyeMarkup }

EyeNext ==
  \/ EyeLoad
  \/ EyeSweep
  \/ EyeObserver
  \/ \E i \in 1..Len(pw.nodes) : EyeClick(pw.nodes[i].uid)
  \/ \E i \in 1..Len(pw.nodes) : \E n \in {1, SweepAbove + 1} : ScriptInjects(pw.nodes[i].uid, n)

EyeSpec == EyeInit /\ [][EyeNext]_vars

\* the observer's callback is a microtask: it runs whenever records wait
EyeLiveSpec == EyeSpec /\ WF_vars(EyeObserver)

(***************************************************************************)
(* Closing and reopening: forms are opened, edited, closed and opened      *)
(* again, the responses arriving in any order.                             *)
(***************************************************************************)
ReopenNext ==
  \/ \E e \in Entities : OpenCreate(e)
  \/ \E e \in Entities : \E id \in Ids : OpenEdit(e, id)
  \/ \E req \in BagToSet(net) : \E res \in AllFetchResponses : FetchResponse(req, res)
  \/ \E k \in 1..Len(doc) : \E i \in 1..Len(doc[k].form.fields) : \E t \in AllTyped :
       InputEvent(k, i, t)
  \/ CloseClick

ReopenSpec == Init /\ [][ReopenNext]_vars

(***************************************************************************)
(* The requests that change data on the server: a page with an add and a   *)
(* delete control, the create form holding a code input, the login modal.  *)
(***************************************************************************)
\* create form with its own modal root: a read-only code input the server
\* leaves empty, a name the server proposes
FragCode ==
  Frag(TRUE, TRUE,
       RootModal(FormOf(<< CodeField(<< >>), NameField(V_ab) >>), BtnOf("Save", FALSE)),
       NoForm)

\* the form fetch req is answered with the create form that holds a code input
FormWithCode(req) ==
  /\ ~reloaded
  /\ req.kind = "open"
  /\ Commit(FetchSettled(Start, req, Json(200, FALSE, TRUE, NoErrors, FragCode), FreshUid(doc)),
            "fetchResponse", Settle(net, req), req, Json(200, FALSE, TRUE, NoErrors, FragCode))

WriteInit ==
  /\ doc = << >>
  /\ net = EmptyBag
  /\ login = [present |-> TRUE, open |-> FALSE, err |-> "", otp |-> FALSE]
  /\ reloaded = FALSE
  /\ pw = NoFields
  /\ ev = Event("load", << >>, 0, << >>, "none", 0, NoResp, FALSE)
  /\ page = [role |-> "",
             els |-> << normalizeEntityButton(LinkAdd), normalizeEntityButton(LinkDeleteColon) >>]

WriteNext ==
  \/ \E i \in 1..Len(page.els) : \E ok \in BOOLEAN : RouterClick(i, ok)
  \/ \E req \in BagToSet(net) : FormWithCode(req)
  \/ \E req \in BagToSet(net) : \E res \in CodeResponses : CodeResponse(req, res)
  \/ \E req \in BagToSet(net) : \E res \in DeleteResponses : DeleteResponse(req, res)
  \/ \E req \in BagToSet(net) : \E res \in SaveResponses : SaveResponse(req, res)
  \/ \E req \in BagToSet(net) : \E res \in LoginResponses : LoginResponse(req, res)
  \/ \E req \in BagToSet(net) : NetworkFailure(req)
  \/ \E k \in 1..Len(doc) : SaveClick(k)
  \/ LoginClick
  \/ LoginSubmit

WriteSpec == WriteInit /\ [][WriteNext]_vars

(***************************************************************************)
(* Properties                                                              *)
(*                                                                         *)
(* A property of one handler is stated on the step the handler takes: the  *)
(* unprimed variables are the state it found, ev' says which handler ran,  *)
(* what it was given and what it put out.                                  *)
(***************************************************************************)
\* the values of every field of a document
ValuesOf(d) ==
  [k \in 1..Len(d) |-> [i \in 1..Len(d[k].form.fields) |-> d[k].form.fields[i].value]]

\* style.display of every modal of a document
DisplaysOf(d) == [k \in 1..Len(d) |-> d[k].display]

\* a document with the save buttons of another
WithButtonsOf(d, e) == [k \in 1..Len(d) |-> [d[k] EXCEPT !.btn = e[k].btn]]

\* a response with status 401 or 403, or one that followed a redirect
AuthResponse(res) == res.status = 401 \/ res.status = 403 \/ res.redirected

\* a response whose body is JSON
JsonBody(res) == res.ct = "json" /\ ~res.bad

GenericAlert == "Please complete all fields and enter valid dates (dd/mm/yyyy)."
CatchAlert == "Submission failed. Check console."
ReloadAlert == "Server returned unexpected response. Reloading..."

\* C1: when the save button is clicked and validateForm fails for the
\* document's form, the click starts no fetch, alerts validateForm's message and
\* nothing else, and focuses and empties the field validateForm returned.
C1_Step ==
  LET f == FormIdx(doc)
      v == validateForm(doc[f].form.fields)
  IN  (ev'.op = "saveClick" /\ f # 0 /\ ~v.valid)
        => /\ ev'.sent = << >>
           /\ net' = net
           /\ ev'.alerts = << v.msg >>
           /\ ev'.focus = v.firstEl
           /\ doc'[f].form.fields[v.firstEl].value = << >>

\* C1: in every step, a save click that validateForm refuses sends no request,
\* alerts the validator's message, and focuses and empties the offending field.
C1_ValidatorFailureSendsNothing == [][C1_Step]_vars

\* a click was refused by validateForm on an ill-formed date, which was emptied
C1_Witness ==
  /\ ev.op = "saveClick"
  /\ ev.alerts = << "Date must be dd/mm/yyyy." >>
  /\ ev.focus # 0
  /\ ev.sent = << >>

\* C2: when the save button is clicked, validateForm passes and the
\* completeness check or the date check fails, the click starts no fetch, shows
\* the generic alert and leaves every field value as it was.
C2_Step ==
  LET f == FormIdx(doc)
      fs == doc[f].form.fields
  IN  (/\ ev'.op = "saveClick"
       /\ f # 0
       /\ validateForm(fs).valid
       /\ (~areAllVisibleFieldsFilled(fs, doc[f].display) \/ ~allDatesValid(fs, doc[f].display)))
        => /\ ev'.sent = << >>
           /\ net' = net
           /\ ev'.alerts = << GenericAlert >>
           /\ ev'.focus = 0
           /\ ValuesOf(doc') = ValuesOf(doc)

\* C2: in every step, a save click that passes validateForm and fails the
\* completeness or the date check sends no request, shows the generic alert and
\* changes no field value.
C2_IncompleteSendsNothing == [][C2_Step]_vars

\* a click was refused by the second guard while a field of the form was empty
C2_Witness ==
  /\ ev.op = "saveClick"
  /\ ev.alerts = << GenericAlert >>
  /\ ev.sent = << >>
  /\ FormIdx(doc) # 0
  /\ \E i \in 1..Len(doc[FormIdx(doc)].form.fields) :
       doc[FormIdx(doc)].form.fields[i].value = << >>

\* C3: once the response or failure of every transmitted save has been
\* handled, no save button of the document is still labelled "Saving...".
C3_LabelRestored ==
  (ev.op \in {"saveResponse", "networkFailure"} /\ ev.kind = "save"
     /\ net = EmptyBag /\ ~reloaded)
    => \A k \in 1..Len(doc) : doc[k].btn.present => doc[k].btn.label # "Saving..."

\* C4: a save response with status 401 or 403, or one that followed a
\* redirect, whatever its body, takes the authentication path: on a page with
\* the login modal the modal is opened and shows "Not authenticated.", on a
\* page without it the message is alerted; no field is marked or emptied, the
\* modal is neither replaced nor hidden, and the page is not reloaded.
C4_Frame ==
  /\ WithButtonsOf(doc', doc) = doc
  /\ ~ev'.installed
  /\ ev'.focus = 0
  /\ ~reloaded'

C4_Step ==
  (ev'.op = "saveResponse" /\ AuthResponse(ev'.resp))
    => /\ IF login.present
          THEN login'.open /\ login'.err = "Not authenticated." /\ ev'.alerts = << >>
          ELSE login' = login /\ ev'.alerts = << "Not authenticated.", "Not authenticated." >>
       /\ C4_Frame

C4_OriginalStep ==
  (ev'.op = "saveResponse" /\ AuthResponse(ev'.resp))
    => /\ login'.open
       /\ login'.err = "Not authenticated."
       /\ C4_Frame

C5_Step ==
  LET res == ev'.resp
  IN  (ev'.op = "saveResponse" /\ ~AuthResponse(res) /\ JsonBody(res) /\ res.success)
        => /\ \A k \in 1..Len(doc') : doc'[k].display = "none"
           /\ reloaded'
           /\ [k \in 1..Len(doc') |-> [doc'[k] EXCEPT !.btn = doc[k].btn, !.display = doc[k].display]]
                = doc
           /\ ~ev'.installed
           /\ ev'.alerts = << >>
           /\ ev'.focus = 0

\* C5: in every step, a save response whose JSON body has the success flag and
\* that is no authentication failure hides the modal and reloads the page, and
\* marks no field whatever else the body carries.
C5_SuccessHidesAndReloads == [][C5_Step]_vars

\* a success body that also carried errors and html hid the modal and reloaded
C5_Witness ==
  /\ ev.op = "saveResponse"
  /\ ev.resp.success /\ ev.resp.errors.present /\ ~ev.resp.frag.empty
  /\ ~AuthResponse(ev.resp)
  /\ reloaded
  /\ Len(doc) = 1 /\ doc[1].display = "none"

\* C6: a save response that is no authentication failure and whose JSON body
\* has no success flag but an errors map: every key of the map that names a
\* field of the form marks that field and shows its messages with it, the
\* shared panel lists every entry of the map, the first message of the first
\* key is alerted, the first key's field is focused and emptied when the form
\* has such a field and no field is focused or emptied when it has none, the
\* modal is neither hidden nor replaced, and the page is not reloaded.
C6_Step ==
  LET res == ev'.resp
      items == res.errors.items
      f == FormIdx(doc)
      first == IF Len(items) > 0 THEN items[1].field ELSE << >>
      k == IF f = 0 THEN 0 ELSE locateField(doc[f].form.fields, first)
      msg == IF Len(items) > 0 THEN items[1].msgs[1] ELSE "Fix errors."
      x == FirstWith(doc', HasBox)
  IN  (/\ ev'.op = "saveResponse"
       /\ ~AuthResponse(res) /\ JsonBody(res) /\ ~res.success /\ res.errors.present)
        => /\ ev'.alerts = IF f = 0 /\ first # << >> THEN << msg, CatchAlert >> ELSE << msg >>
           /\ (FirstWith(doc, HasBody) # 0) => (x # 0 /\ doc'[x].errBox.items = items)
           /\ (f # 0) =>
                \A i \in 1..Len(items) :
                  LET j == locateField(doc[f].form.fields, items[i].field)
                  IN  (j # 0) => /\ doc'[f].form.fields[j].isInvalid
                                 /\ doc'[f].form.fields[j].fb = items[i].msgs
           /\ ev'.focus = k
           /\ (k # 0) => /\ doc'[f].form.fields[k].value = << >>
                         /\ doc'[f].form.fields[k].invalid
           /\ \A m \in 1..Len(doc) : \A i \in 1..Len(doc[m].form.fields) :
                (m # f \/ i # k) => doc'[m].form.fields[i].value = doc[m].form.fields[i].value
           /\ DisplaysOf(doc') = DisplaysOf(doc)
           /\ ~ev'.installed
           /\ ~reloaded'

\* C6: in every step, a save response with an errors map and no success flag
\* marks every named field the form has, lists the map in the panel, alerts the
\* first message, focuses and empties the first key's field when the form has it,
\* and hides, replaces and reloads nothing.
C6_FieldErrors == [][C6_Step]_vars

\* {"doj": ["Bad date"], "name": ["Taken"]} on a form with both fields: the
\* date was focused and emptied, the name was marked with its message
C6_Witness ==
  /\ ev.op = "saveResponse"
  /\ ~AuthResponse(ev.resp) /\ JsonBody(ev.resp) /\ ~ev.resp.success
  /\ ev.resp.errors = ErrDojName
  /\ ev.alerts = << "Bad date" >>
  /\ ev.focus = 2
  /\ FormIdx(doc) # 0
  /\ doc[FormIdx(doc)].form.fields[2].value = << >>
  /\ doc[FormIdx(doc)].form.fields[1].isInvalid
  /\ doc[FormIdx(doc)].form.fields[1].fb = << "Taken" >>
  /\ doc[FormIdx(doc)].display = "flex"

\* C6 as the specification words it: the first field of the map's iteration
\* order is focused and emptied on every such response
C6_Original ==
  (/\ ev.op = "saveResponse"
   /\ ~AuthResponse(ev.resp) /\ JsonBody(ev.resp) /\ ~ev.resp.success
   /\ ev.resp.errors.present /\ Len(ev.resp.errors.items) > 0
   /\ FormIdx(doc) # 0)
    => /\ ev.focus # 0
       /\ doc[FormIdx(doc)].form.fields[ev.focus].value = << >>
       /\ ev.alerts = << ev.resp.errors.items[1].msgs[1] >>
       /\ ~ev.installed
       /\ ~reloaded

\* C7: a save response whose JSON body carries html and neither success nor
\* errors installs the fragment as the entity modal and shows it, whether or
\* not the fragment has a modal root of its own.
C7_FragmentInstalled ==
  LET res == ev.resp
  IN  (/\ ev.op = "saveResponse"
       /\ ~AuthResponse(res) /\ JsonBody(res) /\ ~res.success /\ ~res.errors.present
       /\ ~res.frag.empty)
        => /\ ev.installed
           /\ Len(doc) >= 1
           /\ doc[Len(doc)].display = "flex"

C9_Step ==
  (ev'.op = "networkFailure" /\ ev'.kind = "save")
    => /\ ev'.alerts = << CatchAlert >>
       /\ WithButtonsOf(doc', doc) = doc
       /\ ~ev'.installed
       /\ ~reloaded'
       /\ (ev'.btn # 0) => ~doc'[ev'.btn].btn.disabled

\* C9: in every step, a save fetch that fails at the network level is alerted,
\* changes no field, hides and replaces no modal, reloads nothing, and leaves the
\* button it came from enabled.
C9_NetworkFailureKeepsForm == [][C9_Step]_vars

\* a save failed while the modal was shown with a filled form, and the button
\* is enabled again
C9_Witness ==
  /\ ev.op = "networkFailure" /\ ev.kind = "save"
  /\ ev.btn = 1
  /\ doc[1].display = "flex"
  /\ doc[1].form.present
  /\ \A i \in 1..Len(doc[1].form.fields) : doc[1].form.fields[i].value # << >>
  /\ ~doc[1].btn.disabled
  /\ ~reloaded

\* C10: the document never holds more than one entity-modal element.
C10_AtMostOneModal == Len(doc) <= 1

\* a fragment replaced the modal a save was sent from, and one modal is there
C10_Witness ==
  /\ ev.op = "saveResponse"
  /\ ev.installed
  /\ Len(doc) = 1

\* C11: every save button of the document carries at most one click listener,
\* and carries the one-shot marker exactly when it carries that listener; a click
\* on a save button starts at most one submission.
C11_OneHandler ==
  /\ \A k \in 1..Len(doc) :
       doc[k].btn.present =>
         /\ doc[k].btn.handlers <= 1
         /\ doc[k].btn.boundAjax <=> doc[k].btn.handlers = 1
  /\ ev.op = "saveClick" => Len(ev.sent) <= 1

\* one click on the bound save button of the document's modal started exactly
\* one submission
C11_Witness ==
  /\ ev.op = "saveClick"
  /\ Len(ev.sent) = 1
  /\ Len(doc) = 1
  /\ doc[1].btn.handlers = 1 /\ doc[1].btn.boundAjax
  /\ doc[1].btn.label = "Saving..."

\* a form fetch answered with a usable body: JSON with a 2xx status, the success
\* flag and non-empty html, or non-empty text with a status other than 404
UsableFetchResponse(res) ==
  /\ ~AuthResponse(res)
  /\ ~res.frag.empty
  /\ IF res.ct = "json"
     THEN ~res.bad /\ res.status >= 200 /\ res.status <= 299 /\ res.success
     ELSE res.status # 404

C12_Step ==
  (ev'.op = "fetchResponse" /\ UsableFetchResponse(ev'.resp))
    => \E req \in BagToSet(net) :
         /\ req.kind = ev'.kind
         /\ doc' = RenumberDoc(insertEntityModal(<< >>, req.entity, ev'.resp.frag,
                                                 IF req.kind = "open" THEN "Create" ELSE "Edit",
                                                 req.id, 1))
         /\ BagCardinality(net') = BagCardinality(net) - 1
         /\ \A q \in BagToSet(net) :
              q.kind # "save" => CopiesIn(q, net') = CopiesIn(q, Settle(net, req))

\* C12: in every step, a form fetch answered with a usable body installs that
\* body's modal, title and form target whatever the document held and whatever
\* else is in flight, and settles no other request: the response that resolves
\* last determines the modal.
C12_LastResponseWins == [][C12_Step]_vars

\* an edit form was installed while a create fetch was still in flight
C12_Witness ==
  /\ ev.op = "fetchResponse" /\ ev.kind = "edit"
  /\ UsableFetchResponse(ev.resp)
  /\ ev.installed
  /\ \E q \in BagToSet(net) : q.kind = "open"
  /\ Len(doc) = 1
  /\ doc[1].title.text = TitleFor(CHOOSE e \in Entities : TRUE, "Edit")

\* the events after which the save button shows what recomputeSaveEnabled
\* computed: the installation of the form and every input, change and blur
Recomputed == ev.op \in {"load", "input", "change", "blur"}

\* the completeness check asks for this field: rendered in a displayed modal,
\* enabled, not of type hidden, button or submit, not marked data-optional
Demanded(el, disp) ==
  /\ el.box /\ disp # "none"
  /\ ~el.dis
  /\ el.type \notin {"hidden", "button", "submit"}
  /\ ~el.opt

\* a checkbox or radio
IsChoice(el) == el.type \in {"checkbox", "radio"}

\* some member of the group of el (same type, same name) is checked
AnyMemberChecked(fields, el) ==
  \E j \in 1..Len(fields) :
    fields[j].type = el.type /\ fields[j].name = el.name /\ fields[j].checked

\* C13: after the form is installed and after every input, change and blur,
\* the save button is enabled exactly when (every field the completeness check
\* asks for, required or not, is non-empty after trimming, a checkbox or radio
\* counting as filled when it has no name or a member of its group is checked)
\* and (every rendered, enabled input matched by the date selector holds a
\* calendar-valid dd/mm/yyyy string) and (validateForm reports valid).
C13_GateIsConjunction ==
  \A k \in 1..Len(doc) :
    (Recomputed /\ doc[k].form.present /\ doc[k].btn.present)
      => LET fs == doc[k].form.fields
             disp == doc[k].display
             filled == \A i \in 1..Len(fs) :
                         Demanded(fs[i], disp)
                           => IF IsChoice(fs[i])
                              THEN fs[i].name = << >> \/ AnyMemberChecked(fs, fs[i])
                              ELSE Trim(fs[i].value) # << >>
             dates == \A i \in 1..Len(fs) :
                        (dateSel(fs[i]) /\ fs[i].box /\ disp # "none" /\ ~fs[i].dis)
                          => isValidDateDDMMYYYY(Trim(fs[i].value))
         IN  ~doc[k].btn.disabled <=> (filled /\ dates /\ validateForm(fs).valid)

\* after an edit the button is enabled although a date input that is not
\* rendered is empty
C13_Witness ==
  /\ ev.op = "input"
  /\ Len(doc) = 1 /\ doc[1].form.present
  /\ ~doc[1].btn.disabled
  /\ \E i \in 1..Len(doc[1].form.fields) :
       dateSel(doc[1].form.fields[i]) /\ doc[1].form.fields[i].value = << >>

\* C13 as the specification words it: the button is enabled exactly when all
\* visible required fields are filled, all date-typed fields hold a valid date
\* and validateForm reports valid
C13_Original ==
  \A k \in 1..Len(doc) :
    (Recomputed /\ doc[k].form.present /\ doc[k].btn.present)
      => LET fs == doc[k].form.fields
             disp == doc[k].display
             filled == \A i \in 1..Len(fs) :
                         (isVisible(fs[i], disp) /\ isRequired(fs[i]))
                           => Trim(fs[i].value) # << >>
             dates == \A i \in 1..Len(fs) :
                        (dateSel(fs[i]) \/ isDateForValidator(fs[i]))
                          => isValidDateDDMMYYYY(Trim(fs[i].value))
         IN  ~doc[k].btn.disabled <=> (filled /\ dates /\ validateForm(fs).valid)

\* C14: after the form is installed and after every input, change and blur,
\* the save button is disabled whenever a rendered, enabled field marked
\* required is empty, whatever the other fields hold.
C14_RequiredEmptyDisables ==
  \A k \in 1..Len(doc) :
    (Recomputed /\ doc[k].form.present /\ doc[k].btn.present)
      => \A i \in 1..Len(doc[k].form.fields) :
           LET el == doc[k].form.fields[i]
           IN  (isVisible(el, doc[k].display) /\ ~el.dis /\ isRequired(el)
                  /\ Trim(el.value) = << >>)
                 => doc[k].btn.disabled

\* the required name is empty, the e-mail field (not required) holds text that
\* is no address, and the button is disabled
C14_Witness ==
  /\ ev.op = "input"
  /\ Len(doc) = 1 /\ doc[1].form.present
  /\ doc[1].btn.disabled
  /\ \E i, j \in 1..Len(doc[1].form.fields) :
       /\ isRequired(doc[1].form.fields[i]) /\ doc[1].form.fields[i].value = << >>
       /\ doc[1].form.fields[j].type = "email" /\ ~isRequired(doc[1].form.fields[j])
       /\ doc[1].form.fields[j].value = V_ab

\* C14 as the specification words it: whenever any visible required field is
\* empty the button is disabled
C14_Original ==
  \A k \in 1..Len(doc) :
    (Recomputed /\ doc[k].form.present /\ doc[k].btn.present)
      => \A i \in 1..Len(doc[k].form.fields) :
           LET el == doc[k].form.fields[i]
           IN  (isVisible(el, doc[k].display) /\ isRequired(el) /\ Trim(el.value) = << >>)
                 => doc[k].btn.disabled

\* the rules of validateForm in their order, as (rule fails, message) for one
\* field with trimmed value val
RulesOf(el) ==
  LET val == Trim(el.value)
  IN  << [bad |-> isRequired(el) /\ val = << >>,
          msg |-> "Please fill the required field."],
         [bad |-> el.type = "email" /\ val # << >> /\ ~MatchesEmail(val),
          msg |-> "Invalid email address."],
         [bad |-> isDateForValidator(el) /\ val # << >> /\ ~isValidDateDDMMYYYY(val),
          msg |-> "Date must be dd/mm/yyyy."],
         [bad |-> Includes(ToLower(el.name), S_aadhar) /\ val # << >> /\ ~MatchesAadhar(val),
          msg |-> "Invalid Aadhaar format."] >>

\* the field is looked at by validateForm and breaks one of its rules
BreaksRule(el) ==
  /\ ~el.hid /\ el.type # "hidden" /\ ~el.dis
  /\ \E n \in 1..4 : RulesOf(el)[n].bad

C15_Step ==
  LET f == FormIdx(doc)
      fs == doc[f].form.fields
      failing == {i \in 1..Len(fs) : BreaksRule(fs[i])}
  IN  (ev'.op = "saveClick" /\ f # 0)
        => IF failing = {}
           THEN ev'.focus = 0 /\ ev'.alerts \in {<< >>, << GenericAlert >>}
           ELSE LET i == CHOOSE x \in failing : \A y \in failing : x <= y
                    n == CHOOSE x \in 1..4 :
                           RulesOf(fs[i])[x].bad /\ \A y \in 1..(x - 1) : ~RulesOf(fs[i])[y].bad
                IN  /\ ev'.alerts = << RulesOf(fs[i])[n].msg >>
                    /\ ev'.focus = i
                    /\ validateForm(fs) = [valid |-> FALSE, firstEl |-> i,
                                            msg |-> RulesOf(fs[i])[n].msg]

\* C15: in every step, a save click meets either a form in which no field
\* breaks a rule, and validateForm reports nothing, or reports exactly one
\* failure: the first field in document order that breaks a rule, with the
\* message of the first rule it breaks in the order required-and-empty, e-mail,
\* date, Aadhaar format.
C15_FirstFailureOnly == [][C15_Step]_vars

\* the first field broke the e-mail rule (and the date and Aadhaar rules), the
\* required field after it is empty: the e-mail failure of the first was reported
C15_Witness ==
  /\ ev.op = "saveClick"
  /\ ev.alerts = << "Invalid email address." >>
  /\ ev.focus = 1
  /\ Len(doc) = 1
  /\ isDateForValidator(doc[1].form.fields[1])
  /\ \E j \in 2..Len(doc[1].form.fields) :
       /\ isRequired(doc[1].form.fields[j]) /\ ~doc[1].form.fields[j].dis
       /\ doc[1].form.fields[j].value = << >>

\* C18: for a checkbox or radio with a name, isGroupChecked is true exactly
\* when a member of its group (same type, same name) is checked, and for one
\* without a name it is always true; after every recomputation a group the
\* completeness check asks for keeps the button disabled while no member is
\* checked, and one checked member is enough for the whole group.
C18_GroupIsOneField ==
  \A k \in 1..Len(doc) :
    doc[k].form.present
      => LET fs == doc[k].form.fields
             disp == doc[k].display
         IN  \A i \in 1..Len(fs) :
               IsChoice(fs[i])
                 => /\ isGroupChecked(fs, fs[i])
                         <=> (fs[i].name = << >> \/ AnyMemberChecked(fs, fs[i]))
                    /\ (Demanded(fs[i], disp) /\ fs[i].name # << >>)
                         => /\ FieldUnfilled(fs, fs[i], disp) <=> ~AnyMemberChecked(fs, fs[i])
                            /\ (Recomputed /\ doc[k].btn.present /\ ~AnyMemberChecked(fs, fs[i]))
                                  => doc[k].btn.disabled

\* of two checkboxes named perm one is checked, the other is not, and the
\* button is enabled
C18_Witness ==
  /\ ev.op = "change"
  /\ Len(doc) = 1 /\ doc[1].form.present
  /\ ~doc[1].btn.disabled
  /\ \E i, j \in 1..Len(doc[1].form.fields) :
       /\ doc[1].form.fields[i].type = "checkbox" /\ doc[1].form.fields[j].type = "checkbox"
       /\ doc[1].form.fields[i].name = S_perm /\ doc[1].form.fields[j].name = S_perm
       /\ doc[1].form.fields[i].checked /\ ~doc[1].form.fields[j].checked

\* C18 as the specification words it: for every checkbox or radio,
\* isGroupChecked is true exactly when a member of its group is checked
C18_Original ==
  \A k \in 1..Len(doc) :
    doc[k].form.present
      => \A i \in 1..Len(doc[k].form.fields) :
           IsChoice(doc[k].form.fields[i])
             => (isGroupChecked(doc[k].form.fields, doc[k].form.fields[i])
                   <=> AnyMemberChecked(doc[k].form.fields, doc[k].form.fields[i]))

(***************************************************************************)
(* C16: the calendar check                                                 *)
(***************************************************************************)
\* the calendar rule in its own words: the shape, then the numbers read off the
\* digit positions against a table of month lengths
CalendarValid(s) ==
  /\ Len(s) = 10
  /\ \A i \in 1..10 : IF i \in {3, 6} THEN s[i] = "/" ELSE s[i] \in Digits
  /\ LET d == 10 * DigitVal(s[1]) + DigitVal(s[2])
         m == 10 * DigitVal(s[4]) + DigitVal(s[5])
         y == 1000 * DigitVal(s[7]) + 100 * DigitVal(s[8]) + 10 * DigitVal(s[9])
                + DigitVal(s[10])
         leap == IF y % 100 = 0 THEN y % 400 = 0 ELSE y % 4 = 0
         len == CASE m \in {1, 3, 5, 7, 8, 10, 12} -> 31
                  [] m \in {4, 6, 9, 11} -> 30
                  [] m = 2 -> (IF leap THEN 29 ELSE 28)
                  [] OTHER -> 0
     IN  y \in 1900..9999 /\ m \in 1..12 /\ d \in 1..len

\* C16: for every text a date input holds, with and without its surrounding
\* blanks, isValidDateDDMMYYYY is true exactly when the text is two digits, a
\* slash, two digits, a slash and four digits with the year in 1900..9999, the
\* month in 1..12 and the day in 1..(length of that month in that year, leap
\* years honoured); 29/02/2024 is valid, 29/02/2023, 31/04/2020 and 01/01/1899
\* are not; and a save button that was just recomputed is enabled only if every
\* visible, enabled date input holds such a text
C16_CalendarValidity ==
  /\ \A k \in 1..Len(doc) :
       doc[k].form.present =>
         \A i \in 1..Len(doc[k].form.fields) :
           LET v == doc[k].form.fields[i].value
           IN  /\ isValidDateDDMMYYYY(v) <=> CalendarValid(v)
               /\ isValidDateDDMMYYYY(Trim(v)) <=> CalendarValid(Trim(v))
               /\ (Recomputed /\ doc[k].btn.present /\ ~doc[k].btn.disabled
                     /\ dateSel(doc[k].form.fields[i])
                     /\ isVisible(doc[k].form.fields[i], doc[k].display)
                     /\ ~doc[k].form.fields[i].dis)
                    => CalendarValid(Trim(v))
  /\ isValidDateDDMMYYYY(DateText(29, 2, 2024))
  /\ ~isValidDateDDMMYYYY(DateText(29, 2, 2023))
  /\ ~isValidDateDDMMYYYY(DateText(31, 4, 2020))
  /\ ~isValidDateDDMMYYYY(DateText(1, 1, 1899))

\* the date input holds 29/02/2000, a leap day of a century year, the check
\* accepts it and the recomputed button is enabled
C16_Witness ==
  /\ ev.op = "blur"
  /\ Len(doc) = 1 /\ doc[1].form.present
  /\ ~doc[1].btn.disabled
  /\ \E i \in 1..Len(doc[1].form.fields) :
       /\ dateSel(doc[1].form.fields[i])
       /\ doc[1].form.fields[i].value = DateText(29, 2, 2000)
       /\ isValidDateDDMMYYYY(doc[1].form.fields[i].value)

(***************************************************************************)
(* C17: a displayed date survives transmission and re-display              *)
(***************************************************************************)
\* the values the request body carries under a name
BodyValues(body, name) == { body[j].value : j \in { n \in 1..Len(body) : body[n].name = name } }

C17_Step ==
  LET f == FormIdx(doc)
      fs == doc[f].form.fields
  IN  (ev'.op = "saveClick" /\ f # 0 /\ ev'.sent # << >>)
        => \A i \in 1..Len(fs) :
             (dateSel(fs[i]) /\ ~fs[i].dis /\ CalendarValid(fs[i].value))
               => /\ BodyValues(ev'.sent[1].body, fs[i].name) # {}
                  /\ \A t \in BodyValues(ev'.sent[1].body, fs[i].name) :
                       /\ MatchesISODate(t)
                       /\ t # fs[i].value
                       /\ formatDateField([fs[i] EXCEPT !.value = t]).value = fs[i].value

\* C17: in every step, a save click that sends the form transmits, for every
\* date input that holds a calendar-valid dd/mm/yyyy text, a yyyy-mm-dd value
\* which formatDateFields displays as the text the input held.
C17_RoundTrip == [][C17_Step]_vars

\* the input shows 29/02/2024 and the request just sent carries 2024-02-29 for it
C17_Witness ==
  /\ ev.op = "saveClick" /\ Len(ev.sent) = 1
  /\ Len(doc) = 1 /\ doc[1].form.present
  /\ \E i \in 1..Len(doc[1].form.fields) :
       /\ dateSel(doc[1].form.fields[i])
       /\ doc[1].form.fields[i].value = DateText(29, 2, 2024)
       /\ BodyValues(ev.sent[1].body, doc[1].form.fields[i].name) = { V_iso }
       /\ formatDateField([doc[1].form.fields[i] EXCEPT !.value = V_iso]).value
            = DateText(29, 2, 2024)

(***************************************************************************)
(* C19: the entity a clicked element resolves to                           *)
(***************************************************************************)
\* the non-empty entity attributes the element itself carries
OwnEntities(el) ==
  { Attr(el.attrs, n) : n \in {"data-open-entity", "data-edit-entity",
                               "data-delete-entity", "data-entity"} } \ { << >> }

\* the id follows the convention create-<entity>-btn, as written or in any case
IdNamesEntity(id, anyCase) ==
  LET x == IF anyCase THEN ToLower(id) ELSE id
  IN  /\ Len(id) >= Len(S_createDash) + 1 + Len(S_dashBtn)
      /\ HasPrefix(x, S_createDash) /\ EndsWith(x, S_dashBtn)

\* <entity> of an id create-<entity>-btn
IdEntity(id) == SubSeq(id, Len(S_createDash) + 1, Len(id) - Len(S_dashBtn))

\* the link target has the form /<entity>/(get|create|update|delete)...
HrefNamesEntity(href) ==
  LET p == SplitSlash(href)
  IN  /\ Len(p) >= 3 /\ p[1] = << >> /\ p[2] # << >>
      /\ ToLower(p[3]) \in {W_get, W_create, W_update, W_delete}

\* the entity attribute of the nearest ancestor that carries one
AncestorEntity(el) ==
  IF \E i \in 1..Len(el.anc) : "data-entity" \in DOMAIN el.anc[i]
  THEN el.anc[CHOOSE i \in 1..Len(el.anc) :
                /\ "data-entity" \in DOMAIN el.anc[i]
                /\ \A j \in 1..(i - 1) : "data-entity" \notin DOMAIN el.anc[j]]["data-entity"]
  ELSE << >>

\* the results the four rules allow, read with every latitude their wording
\* leaves: any of the element's own entity attributes; an id that follows the
\* convention only up to case either names its entity or is passed over; an
\* empty entity attribute on the element itself either counts as the nearest
\* one or is passed over
ClaimedEntities(el) ==
  LET id == Attr(el.attrs, "id")
      href == Attr(el.attrs, "href")
      fromLink == IF HrefNamesEntity(href) THEN { SplitSlash(href)[2] }
                  ELSE { AncestorEntity(el), ClosestAttr(el, "data-entity") }
  IN  IF OwnEntities(el) # {} THEN OwnEntities(el)
      ELSE IF IdNamesEntity(id, FALSE) THEN { IdEntity(id) }
      ELSE IF IdNamesEntity(id, TRUE) THEN { IdEntity(id) } \cup fromLink
      ELSE fromLink

\* C19 as the specification words it: the entity the router resolves for the
\* clicked element, and opens, edits or deletes, is the one the four rules
\* give in their order: the element's own entity attribute, else <entity> of
\* an id create-<entity>-btn, else the first segment of a link target
\* /<entity>/(get|create|update|delete), else the nearest ancestor's entity
\* attribute, else none; a link to /client/update/42/ resolves to client.
C19_Original ==
  /\ getEntityFromElement(LinkEdit) = << "c", "l", "i", "e", "n", "t" >>
  /\ ev.op = "routerClick" =>
       LET t == page.els[ev.target]
       IN  /\ getEntityFromElement(t) \in ClaimedEntities(t)
           /\ \A k \in 1..Len(ev.sent) : ev.sent[k].req.entity \in ClaimedEntities(t)

(***************************************************************************)
(* C20: the identifier a clicked element resolves to                       *)
(***************************************************************************)
\* the trailing segment of a link target that ends in
\* /(update|get|delete)/<segment> or /(update|get|delete)/<segment>/
LinkIds(href) ==
  { seg \in { SubSeq(href, i, j) : i \in 1..Len(href), j \in {Len(href) - 1, Len(href)} } :
      /\ seg # << >> /\ \A n \in 1..Len(seg) : seg[n] # "/"
      /\ \E v \in {W_update, W_get, W_delete} : \E tail \in {<< >>, << "/" >>} :
           /\ EndsWith(href, seg \o tail)
           /\ EndsWith(ToLower(href), << "/" >> \o v \o << "/" >> \o ToLower(seg) \o tail) }

\* the data-id of the nearest ancestor that carries one
AncestorId(el) ==
  IF \E i \in 1..Len(el.anc) : "data-id" \in DOMAIN el.anc[i]
  THEN el.anc[CHOOSE i \in 1..Len(el.anc) :
                /\ "data-id" \in DOMAIN el.anc[i]
                /\ \A j \in 1..(i - 1) : "data-id" \notin DOMAIN el.anc[j]]["data-id"]
  ELSE << >>

\* the identifiers the three rules allow, before the colon is stripped; where
\* the element carries an empty data-id of its own, the wording leaves open
\* whether the ancestors are still consulted
ClaimedIds(el) ==
  LET own == Attr(el.attrs, "data-id")
      link == IF LinkIds(Attr(el.attrs, "href")) = {} THEN { << >> }
              ELSE LinkIds(Attr(el.attrs, "href"))
  IN  IF own # << >> THEN { own }
      ELSE (IF AncestorId(el) # << >> THEN { AncestorId(el) } ELSE link)
           \cup (IF "data-id" \in DOMAIN el.attrs THEN link ELSE {})

NoLeadingColon(id) == Len(id) = 0 \/ id[1] # ":"

C20_Step ==
  /\ ev'.op = "routerClick" =>
       LET t == page.els[ev'.target]
       IN  /\ getIdFromElement(t) \in { StripColon(x) : x \in ClaimedIds(t) }
           /\ NoLeadingColon(getIdFromElement(t))
           /\ \A k \in 1..Len(ev'.sent) :
                ev'.sent[k].req.kind \in {"edit", "delete"}
                  => /\ ev'.sent[k].req.id = getIdFromElement(t)
                     /\ ev'.sent[k].req.id # << >>
  /\ \A k \in 1..Len(ev'.sent) :
       /\ NoLeadingColon(ev'.sent[k].req.id)
       /\ ~Includes(ev'.sent[k].url, << "/", ":" >>)
       /\ ev'.sent[k].req.kind \in {"edit", "delete"}
            => EndsWith(ev'.sent[k].url, << "/" >> \o ev'.sent[k].req.id \o << "/" >>)
  /\ \A k \in 1..Len(doc') :
       doc'[k].form.present => ~Includes(doc'[k].form.action, << "/", ":" >>)
  /\ getIdFromElement(LinkEditColon) = << "4", "2" >>

NoEntity(t) == getEntityFromElement(t) = << >>
NoIdForTrigger(t) ==
  /\ ~NoEntity(t) /\ ~MatchesOpen(t) /\ (MatchesEdit(t) \/ MatchesDelete(t))
  /\ getIdFromElement(t) = << >>

\* the handler left the requests, the modals and the login modal as they were
\* and called neither alert nor confirm
NothingDone ==
  /\ ev'.sent = << >> /\ ev'.alerts = << >> /\ ev'.confirm = "none"
  /\ doc' = doc /\ net' = net /\ login' = login

C21_Step ==
  ev'.op = "routerClick" =>
    LET t == page.els[ev'.target]
    IN  /\ NoIdForTrigger(t) => NothingDone /\ ~reloaded'
        /\ NoEntity(t) =>
             /\ NothingDone
             /\ reloaded' <=> (t.tag = "a" /\ Attr(t.attrs, "href") # << >>)

C21_OriginalStep ==
  ev'.op = "routerClick" =>
    LET t == page.els[ev'.target]
    IN  (NoEntity(t) \/ NoIdForTrigger(t)) => NothingDone /\ ~reloaded'

C22_Step ==
  /\ \A k \in 1..Len(ev'.sent) :
       ev'.sent[k].req.kind = "delete" => ev'.confirm = "yes"
  /\ ev'.confirm = "no" =>
       /\ ev'.sent = << >> /\ ev'.alerts = << >>
       /\ doc' = doc /\ net' = net /\ login' = login /\ reloaded' = reloaded
  /\ (ev'.op = "delete"
        \/ (ev'.op = "routerClick" /\ ~NoEntity(page.els[ev'.target])
              /\ ~MatchesOpen(page.els[ev'.target]) /\ ~MatchesEdit(page.els[ev'.target])
              /\ ~NoIdForTrigger(page.els[ev'.target])))
       => ev'.confirm # "none"
  /\ \A q \in BagToSet(net') :
       (q.kind = "delete" /\ CopiesIn(q, net') > CopiesIn(q, net)) => ev'.confirm = "yes"

\* C22: in every step, a delete request is sent, or comes to be in flight,
\* only by a handler whose confirm() dialog was answered with yes; every call
\* of deleteEntity opens the dialog; and a handler whose dialog was declined
\* sends nothing, alerts nothing and leaves modals, requests in flight, the
\* login modal and the page as they were.
C22_ConfirmFirst == [][C22_Step]_vars

\* a delete link was clicked while a request was in flight and the dialog declined
C22_Witness ==
  /\ ev.op = "routerClick" /\ ev.confirm = "no"
  /\ MatchesDelete(page.els[ev.target])
  /\ getIdFromElement(page.els[ev.target]) # << >>
  /\ BagCardinality(net) = 1 /\ ev.sent = << >>

(***************************************************************************)
(* C23: the submission target of an installed form                         *)
(***************************************************************************)
\* the form fetch the step settled
SettledFetch == CHOOSE q \in BagToSet(net) : CopiesIn(q, net') < CopiesIn(q, net)

\* /<entity>/create/ or /<entity>/update/<id>/, the entity in lower case and
\* without white space
EndpointOf(q) ==
  LET seg == ToLower(SelectSeq(q.entity, LAMBDA c : c \notin Spaces))
  IN  << "/" >> \o seg \o
      (IF q.kind = "open" THEN << "/", "c", "r", "e", "a", "t", "e", "/" >>
       ELSE << "/", "u", "p", "d", "a", "t", "e", "/" >> \o q.id \o << "/" >>)

\* the body of the response holds a form, with or without a modal root
BodyHasForm(res) ==
  IF res.frag.root THEN res.frag.modal.form.present ELSE res.frag.form.present

C23_Step ==
  (ev'.op = "fetchResponse" /\ UsableFetchResponse(ev'.resp) /\ BodyHasForm(ev'.resp))
    => LET q == SettledFetch
           f == FormIdx(doc')
       IN  /\ q.kind = ev'.kind
           /\ f # 0
           /\ doc'[f].display = "flex"
           /\ doc'[f].form.action = EndpointOf(q)
           /\ NoLeadingColon(q.id)
           /\ \A k \in 1..Len(doc') : doc'[k].form.present => k = f

\* C23: in every step, a form fetch answered with a usable body that holds a
\* form leaves exactly one form in the document, in a shown modal, whose
\* submission target is /<entity>/create/ after openEntityModal and
\* /<entity>/update/<id>/ after editEntity, the entity in lower case without
\* white space and the id without leading ":", whether the body has its own
\* modal root or is injected into the skeleton.
C23_SubmissionTarget == [][C23_Step]_vars

\* editEntity was called with ":42" for "Loan App" and answered with form
\* markup without a modal root: the skeleton's form targets /loanapp/update/42/
C23_Witness ==
  /\ ev.op = "fetchResponse" /\ ev.kind = "edit"
  /\ UsableFetchResponse(ev.resp) /\ ~ev.resp.frag.root /\ ev.resp.frag.form.present
  /\ Len(doc) = 1 /\ doc[1].form.present
  /\ doc[1].form.action = << "/", "l", "o", "a", "n", "a", "p", "p", "/", "u", "p", "d",
                             "a", "t", "e", "/", "4", "2", "/" >>

\* the kinds of request that change data on the server
WriteKinds == {"save", "delete", "login", "code"}

\* C24: every request of a create or update submission, of a delete, of the
\* login form and of the next-code lookup is a POST that carries the
\* X-CSRFToken header and the X-Requested-With header and is sent with
\* credentials included.  (The header's value is whatever getCsrfTokenSafe
\* finds, the empty string when the page holds no token.)
C24_WritesCarryToken ==
  \A n \in 1..Len(ev.sent) :
    ev.sent[n].req.kind \in WriteKinds =>
      /\ ev.sent[n].opts.method = "POST"
      /\ ev.sent[n].opts.csrf
      /\ ev.sent[n].opts.xrw
      /\ ev.sent[n].opts.credentials = "include"

\* the installation of a create form has sent the next-code request
C24_Witness ==
  /\ ev.op = "fetchResponse"
  /\ \E n \in 1..Len(ev.sent) : ev.sent[n].req.kind = "code" /\ ev.sent[n].opts.csrf

\* C25: whenever recomputeSaveEnabled has enabled the save button, every
\* rendered, enabled field that is not of type hidden, button or submit and is
\* not marked data-optional holds a value that is non-empty after trimming, or
\* is a checkbox or radio without a name or with a checked member in its group;
\* and every rendered, enabled input matched by the date selector holds, after
\* trimming, ten characters that are a calendar-valid dd/mm/yyyy date.
C25_EnabledMeansComplete ==
  \A k \in 1..Len(doc) :
    (Recomputed /\ doc[k].form.present /\ doc[k].btn.present /\ ~doc[k].btn.disabled)
      => LET fs == doc[k].form.fields
             disp == doc[k].display
         IN  /\ \A i \in 1..Len(fs) :
                  Demanded(fs[i], disp)
                    => IF IsChoice(fs[i])
                       THEN fs[i].name = << >> \/ AnyMemberChecked(fs, fs[i])
                       ELSE Trim(fs[i].value) # << >>
             /\ \A i \in 1..Len(fs) :
                  (dateSel(fs[i]) /\ isVisible(fs[i], disp) /\ ~fs[i].dis)
                    => /\ Len(Trim(fs[i].value)) = 10
                       /\ isValidDateDDMMYYYY(Trim(fs[i].value))

\* an edit has enabled the button of a form whose rendered date input holds a
\* date and whose other fields are all filled
C25_Witness ==
  /\ ev.op \in {"input", "change", "blur"}
  /\ Len(doc) = 1 /\ doc[1].form.present /\ doc[1].btn.present
  /\ ~doc[1].btn.disabled
  /\ \E i \in 1..Len(doc[1].form.fields) :
       /\ dateSel(doc[1].form.fields[i]) /\ isVisible(doc[1].form.fields[i], doc[1].display)
       /\ Len(doc[1].form.fields[i].value) = 10
  /\ \A i \in 1..Len(doc[1].form.fields) : doc[1].form.fields[i].value # << >>

\* C25 as the specification words it: with the button enabled every visible
\* field is non-empty or belongs to a group with a checked member, and every
\* visible date field holds a valid date of ten characters
C25_Original ==
  \A k \in 1..Len(doc) :
    (Recomputed /\ doc[k].form.present /\ doc[k].btn.present /\ ~doc[k].btn.disabled)
      => LET fs == doc[k].form.fields
             disp == doc[k].display
         IN  /\ \A i \in 1..Len(fs) :
                  isVisible(fs[i], disp)
                    => \/ (~IsChoice(fs[i]) /\ fs[i].value # << >>)
                       \/ (IsChoice(fs[i]) /\ AnyMemberChecked(fs, fs[i]))
             /\ \A i \in 1..Len(fs) :
                  (dateSel(fs[i]) /\ isVisible(fs[i], disp))
                    => /\ Len(fs[i].value) = 10
                       /\ isValidDateDDMMYYYY(fs[i].value)

C26_Step ==
  ev'.op \in {"input", "change", "blur"}
    => \A k \in 1..Len(doc') :
         (doc'[k].form.present /\ doc'[k].form.listening /\ doc'[k].btn.present)
           => (~doc'[k].btn.disabled
                 <=> SaveEligible(doc'[k].form.fields, doc'[k].display))

\* C26: after every input, change and blur event on a field of an installed
\* form, the save button is enabled exactly when save-eligibility, computed
\* from the values the fields hold once the event's listeners have run, is
\* true; the state the button had before the event plays no part.
C26_RecomputedOnEveryEvent == [][C26_Step]_vars

\* an edit has left a date that is none in the date input: the button is
\* disabled although the required name is filled
C26_Witness ==
  /\ ev.op = "input"
  /\ Len(doc) = 1 /\ doc[1].form.present /\ doc[1].form.listening /\ doc[1].btn.present
  /\ doc[1].btn.disabled
  /\ \E i, j \in 1..Len(doc[1].form.fields) :
       /\ dateSel(doc[1].form.fields[i]) /\ Len(doc[1].form.fields[i].value) = 10
       /\ ~isValidDateDDMMYYYY(doc[1].form.fields[i].value)
       /\ doc[1].form.fields[j].name = S_name /\ doc[1].form.fields[j].value = V_ab

\* a field the specification's validator is to skip: inside an element with
\* the hidden attribute or of type hidden, disabled, or marked data-optional
MarkedForSkipping(el) == el.hid \/ el.type = "hidden" \/ el.dis \/ el.opt

\* C27 as the specification words it: the field validateForm fails on is never
\* one that is hidden, disabled or marked optional.  validateForm skips hidden
\* and disabled fields only; a field marked data-optional is put to every rule.
C27_Original ==
  \A k \in 1..Len(doc) :
    doc[k].form.present
      => LET v == validateForm(doc[k].form.fields)
         IN  v.valid \/ ~MarkedForSkipping(doc[k].form.fields[v.firstEl])

\* the field el as the server may render it as well: another value, another
\* required marking, another category
RenderedOtherwise(el) ==
  { [el EXCEPT !.value = v, !.req = rq, !.type = ty] :
      v \in {<< >>, V_ab, TodayDDMMYYYY}, rq \in {"none", "attr"}, ty \in {el.type, "email"} }

\* C28 as the specification words it: save-eligibility does not depend on the
\* value, the required marking or the category of a field that is not rendered
\* or is disabled.  validateForm does not use isVisible: it skips a field for
\* the hidden attribute, for type hidden and when disabled, so a field that is
\* merely not rendered goes through every rule.
C28_Original ==
  \A k \in 1..Len(doc) :
    doc[k].form.present
      => \A i \in 1..Len(doc[k].form.fields) :
           LET fs == doc[k].form.fields
           IN  (~isVisible(fs[i], doc[k].display) \/ fs[i].dis)
                 => \A alt \in RenderedOtherwise(fs[i]) :
                      SaveEligible([fs EXCEPT ![i] = alt], doc[k].display)
                        = SaveEligible(fs, doc[k].display)

\* the part of C28 the code keeps: a disabled field's value, required marking
\* and category never change save-eligibility
C28_DisabledOnly ==
  \A k \in 1..Len(doc) :
    doc[k].form.present
      => \A i \in 1..Len(doc[k].form.fields) :
           LET fs == doc[k].form.fields
           IN  fs[i].dis
                 => \A alt \in RenderedOtherwise(fs[i]) :
                      SaveEligible([fs EXCEPT ![i] = alt], doc[k].display)
                        = SaveEligible(fs, doc[k].display)

C29_OriginalStep ==
  LET f == FormIdx(doc)
      fs == doc[f].form.fields
  IN  (ev'.op = "saveClick" /\ f # 0 /\ ev'.sent # << >>)
        => /\ \A i \in 1..Len(fs) :
                (isDateForValidator(fs[i]) /\ Trim(fs[i].value) # << >>)
                  => \A t \in BodyValues(ev'.sent[1].body, fs[i].name) : MatchesISODate(t)
           /\ \A i \in 1..Len(fs) : doc'[f].form.fields[i].value = fs[i].value

\* C29 as the specification words it: in every save request that is sent, the
\* value transmitted for a field the validator treats as a date (and that
\* holds a value) has the yyyy-mm-dd form, and the click leaves the values the
\* fields show as they were.  The save handler re-encodes the inputs matched
\* by its own date selector only, which is case-sensitive on the name and
\* knows placeholders; the validator tests /date|dob/i.
C29_Original == [][C29_OriginalStep]_vars

\* the fields of the form a response body holds, inside its own modal root or bare
ResponseFields(res) ==
  IF res.frag.root THEN res.frag.modal.form.fields ELSE res.frag.form.fields

\* C30 as the specification words it: once the form of a response is
\* installed, an input of class date-field the server left empty shows
\* today's date after a create-open, whether the response holds its own modal
\* root or not; after an edit-open, and where the server gave a value, the
\* field shows the server's value (a yyyy-mm-dd value re-displayed as
\* dd/mm/yyyy).  insertEntityModal pre-fills in its skeleton branch only.
C30_Original ==
  LET f == FormIdx(doc)
      src == ResponseFields(ev.resp)
  IN  (/\ ev.op = "fetchResponse" /\ ev.installed /\ UsableFetchResponse(ev.resp)
       /\ f # 0 /\ Len(src) > 0
       /\ Len(doc[f].form.fields) = Len(src)
       /\ \A i \in 1..Len(src) : doc[f].form.fields[i].name = src[i].name)
        => \A i \in 1..Len(src) :
             (src[i].tag = "input" /\ src[i].cls)
               => doc[f].form.fields[i].value =
                    IF ev.kind = "open" /\ src[i].value = << >>
                    THEN TodayDDMMYYYY
                    ELSE formatDateField(src[i]).value

\* a form fetch has ended without a body to install: an answer that is no
\* usable one, or the rejection of the fetch
FetchCameToNothing ==
  \/ ev'.op = "fetchResponse" /\ ~UsableFetchResponse(ev'.resp)
  \/ ev'.op = "networkFailure" /\ ev'.kind \in {"open", "edit"}

C31_Step ==
  FetchCameToNothing
    => /\ doc' = doc
       /\ ~ev'.installed
       /\ ev'.sent = << >>
       /\ (ev'.op = "fetchResponse" /\ AuthResponse(ev'.resp) /\ login.present)
            => login'.open /\ login'.err = "Not authenticated."
       /\ ~(ev'.op = "fetchResponse" /\ AuthResponse(ev'.resp)) => login' = login

C32_Step ==
  /\ ev'.op = "close"
       => /\ Len(doc) > 0
          /\ doc' = [doc EXCEPT ![1].display = "none"]
          /\ net' = net /\ login' = login /\ reloaded' = reloaded
  /\ (ev'.op = "fetchResponse" /\ UsableFetchResponse(ev'.resp)
         /\ Len(doc) > 0 /\ doc[1].display = "none")
       => \E req \in BagToSet(net) :
            /\ req.kind = ev'.kind
            /\ doc' = RenumberDoc(insertEntityModal(<< >>, req.entity, ev'.resp.frag,
                                                    IF req.kind = "open" THEN "Create" ELSE "Edit",
                                                    req.id, 1))

\* C32: closeEntityModal changes nothing but the display of the entity modal:
\* the element, its form, the form's target, the field values, the save
\* button's listener and its enabled state stay as they were, and so do the
\* requests in flight; and the form installed by the next open after a close
\* is the one of the response alone, whatever the fields of the closed form
\* held.
C32_CloseOnlyHides == [][C32_Step]_vars

\* a modal was closed whose form holds what the user typed and whose save
\* button is enabled and bound
C32_Witness ==
  /\ ev.op = "close"
  /\ Len(doc) = 1 /\ doc[1].display = "none" /\ doc[1].form.present
  /\ doc[1].btn.present /\ ~doc[1].btn.disabled /\ doc[1].btn.handlers = 1
  /\ \E i \in 1..Len(doc[1].form.fields) : doc[1].form.fields[i].value = V_ab

\* the path segment the specification asks for: lower case, no white space
PathSegment(entity) == ToLower(StripSpaces(entity))

\* no upper-case letter and no white space
LowerNoSpace(seg) ==
  \A i \in 1..Len(seg) : seg[i] \notin Spaces /\ \A j \in 1..26 : seg[i] # UpperLetters[j]

\* C33: the URL of every form fetch, delete request and image fetch starts
\* with "/", the entity it was called with in lower case and without white
\* space, and "/"; and so does the target given to an installed form.
C33_LowerCasePaths ==
  /\ \A n \in 1..Len(ev.sent) :
       ev.sent[n].req.kind \in {"open", "edit", "delete", "image"}
         => /\ HasPrefix(ev.sent[n].url,
                         << "/" >> \o PathSegment(ev.sent[n].req.entity) \o << "/" >>)
            /\ LowerNoSpace(PathSegment(ev.sent[n].req.entity))
  /\ (ev.op = "fetchResponse" /\ ev.installed)
       => \A k \in 1..Len(doc) :
            (doc[k].form.present /\ doc[k].form.entity # << >>)
              => /\ HasPrefix(doc[k].form.action,
                              << "/" >> \o PathSegment(doc[k].form.entity) \o << "/" >>)
                 /\ LowerNoSpace(PathSegment(doc[k].form.entity))

\* an image fetch was started for an entity written with capitals and blanks
C33_Witness ==
  /\ ev.op = "image"
  /\ Len(ev.sent) = 1
  /\ ~LowerNoSpace(ev.sent[1].req.entity)
  /\ HasPrefix(ev.sent[1].url, << "/", "l", "o", "a", "n", "a", "p", "p", "/", "g", "e", "t", "/" >>)

\* the data attributes normalizeEntityButtons stamps
StampedNames ==
  {"data-open-entity", "data-edit-entity", "data-delete-entity", "data-entity", "data-id"}

\* a second run changes nothing and no stamped attribute that had a value
\* is given another
NormalizeKeeps(before, after) ==
  /\ normalizeEntityButton(after) = after
  /\ \A n \in StampedNames \cap DOMAIN before.attrs :
       before.attrs[n] # << >> => after.attrs[n] = before.attrs[n]

C34_KeepsStep ==
  ev'.op = "normalize"
    => \A i \in 1..Len(page.els) : NormalizeKeeps(page.els[i], page'.els[i])

\* normalizeEntityButtons is idempotent and keeps every entity and id
\* attribute that had a value
C34_IdempotentKeeps == [][C34_KeepsStep]_vars

C34_OriginalStep ==
  ev'.op = "normalize"
    => \A i \in 1..Len(page.els) :
         /\ NormalizeKeeps(page.els[i], page'.els[i])
         /\ getEntityFromElement(page'.els[i]) = getEntityFromElement(page.els[i])
         /\ getIdFromElement(page'.els[i]) = getIdFromElement(page.els[i])

\* C34: normalizeEntityButtons is idempotent, overwrites no entity or id
\* attribute that was present, and leaves the entity and the id the router
\* resolves for each element as they were.
C34_Original == [][C34_OriginalStep]_vars

\* the toggles the click handler resolves to the input uid
TogglesFor(nodes, uid) ==
  {nodes[i].uid : i \in {j \in 1..Len(nodes) :
     MatchesToggleSel(nodes[j]) /\ ControlledInput(nodes, nodes[j]) = uid}}

C35_OriginalStep ==
  ev'.op \in {"eyeLoad", "eyeSweep"}
    => \A i \in 1..Len(pw'.nodes) :
         LET n == pw'.nodes[i]
             before == TogglesFor(pw.nodes, n.uid)
             after == TogglesFor(pw'.nodes, n.uid)
         IN  (n.k = "input" /\ n.type = "password")
               => IF n.decoy THEN after = {}
                  ELSE /\ Cardinality(after) = 1
                       /\ (\E t \in before : NodeOf(pw.nodes, t).manual)
                            => \A t \in after : NodeOf(pw'.nodes, t).manual

\* C35: after the wiring and dedup pass every password input that is no
\* decoy has exactly one toggle, every decoy has none, and where the input
\* had a toggle marked data-toggle-pass the toggle left is one so marked.
C35_Original == [][C35_OriginalStep]_vars

\* wirePasswordEyes(document); dedupePasswordEyes(document)
EyePass(st) == With(wirePasswordEyes(st, 0), LAMBDA s : dedupePasswordEyes(s, 0))

\* the toggles of the document, in document order
TogglesOf(st) == SelectSeq(st.nodes, LAMBDA n : n.k = "toggle")

C36_Step ==
  ev'.op \in {"eyeLoad", "eyeSweep"}
    => With(EyePass(pw),
            LAMBDA once : /\ ev'.op = "eyeSweep" => pw'.nodes = once.nodes
                          /\ TogglesOf(EyePass(once)) = TogglesOf(once))

\* C36: a second run of wirePasswordEyes and dedupePasswordEyes on the
\* document the first run left adds no toggle, removes none and leaves the
\* toggle of every input the one it was.
C36_SecondPassChangesNothing == [][C36_Step]_vars

\* the load has pruned the toggles of an input to the one marked
\* data-toggle-pass, and a further pass leaves it
C36_Witness ==
  /\ ev.op = "eyeLoad"
  /\ Len(TogglesOf(pw)) = 1
  /\ TogglesOf(pw)[1].manual
  /\ TogglesOf(EyePass(pw)) = TogglesOf(pw)

\* C37: whenever mutation records wait for the observer, the observer's
\* reactions come to an end: a state without waiting records is reached.
C37_Original == (pw.records # << >>) ~> (pw.records = << >>)

\* a save request is in flight
SaveInFlight == \E q \in BagToSet(net) : q.kind = "save"

\* C38: whenever no save request is in flight, an enabled save button means
\* that the form of its modal is save-eligible; so also after a field-errors
\* response has emptied the offending field and the completion handler has
\* enabled the button again.
C38_Original ==
  (~SaveInFlight /\ ~reloaded)
    => \A k \in 1..Len(doc) :
         (doc[k].form.present /\ doc[k].btn.present /\ ~doc[k].btn.disabled)
           => SaveEligible(doc[k].form.fields, doc[k].display)

\* the modals of the document from which a save request is in flight
Submitting(d, n) ==
  {k \in 1..Len(d) : \E q \in BagToSet(n) : q.kind = "save" /\ q.modal = d[k].uid}

\* C39: while a save request of a form is in flight its save button stays
\* disabled, so the form cannot be submitted a second time; input, change and
\* blur events of its fields during the flight do not enable it.
C39_Original ==
  \A k \in Submitting(doc, net) : doc[k].btn.present => doc[k].btn.disabled

\* the part of C39 about field events alone
C39_EventsStep ==
  (ev'.op \in {"input", "change", "blur"})
    => \A k \in Submitting(doc', net') : doc'[k].btn.present => doc'[k].btn.disabled

C39_Events == [][C39_EventsStep]_vars

\* the part of C39 about a second submission: no click sends a request of a
\* form that has one in flight
C39_ResubmitStep ==
  (ev'.op = "saveClick")
    => \A j \in 1..Len(ev'.sent) :
         ev'.sent[j].req.modal \notin {doc[k].uid : k \in Submitting(doc, net)}

C39_Resubmit == [][C39_ResubmitStep]_vars

\* the step handles the response or failure of a save request whose modal
\* has left the document during the flight, and installs no modal itself
StaleSaveHandled ==
  /\ ev'.op \in {"saveResponse", "networkFailure"}
  /\ ev'.kind = "save"
  /\ ev'.btn = 0
  /\ ~ev'.installed

\* C40: the handling of a save response acts only on the modal the request
\* was submitted from: a modal that took its place during the flight keeps
\* its fields (values and marks), its visibility and the state of its save
\* button.
C40_OriginalStep ==
  StaleSaveHandled
    => /\ Len(doc') = Len(doc)
       /\ \A k \in 1..Len(doc) :
            /\ doc'[k].form.fields = doc[k].form.fields
            /\ doc'[k].display = doc[k].display
            /\ doc'[k].btn.disabled = doc[k].btn.disabled

C40_Original == [][C40_OriginalStep]_vars

\* the response is the JSON body of a success
SaveSucceeded(res) == ~IsAuthFailure(res) /\ res.ct = "json" /\ ~res.bad /\ res.success

\* the response is the JSON body of a field-errors map
SaveRefused(res) ==
  ~IsAuthFailure(res) /\ res.ct = "json" /\ ~res.bad /\ ~res.success /\ res.errors.present

\* C40 (amended): a save response is applied to the form and modal the
\* document holds when it is handled. When the modal was replaced during the
\* flight, a success hides the newer modal and reloads the page, and a
\* field-errors response marks and empties the first offending field the
\* newer form holds; on success, field errors and network failure the save
\* button of the newer modal is left as it was, the re-enabling reaching only
\* the button the request was submitted from.
C40_Step ==
  StaleSaveHandled
    => /\ Len(doc') = Len(doc)
       /\ (SaveSucceeded(ev'.resp) \/ SaveRefused(ev'.resp) \/ ev'.op = "networkFailure")
            => \A k \in 1..Len(doc) : doc'[k].btn = doc[k].btn
       /\ (SaveSucceeded(ev'.resp) /\ Len(doc) > 0)
            => (doc'[1].display = "none" /\ reloaded')
       /\ (SaveRefused(ev'.resp) /\ FormIdx(doc) # 0 /\ Len(ev'.resp.errors.items) > 0)
            => LET f == FormIdx(doc)
                   k == locateField(doc[f].form.fields, ev'.resp.errors.items[1].field)
               IN  (k # 0) => /\ doc'[f].form.fields[k].invalid
                              /\ doc'[f].form.fields[k].value = << >>

C40_StaleActsOnCurrent == [][C40_Step]_vars

\* a field-errors response of a request whose modal was replaced during the
\* flight has been handled, and a field of the newer form is marked
C40_Witness ==
  /\ ev.op = "saveResponse" /\ ev.kind = "save" /\ ev.btn = 0 /\ ~ev.installed
  /\ SaveRefused(ev.resp)
  /\ \E k \in 1..Len(doc) : \E i \in 1..Len(doc[k].form.fields) :
       doc[k].form.fields[i].invalid /\ doc[k].btn.present /\ doc[k].btn.disabled

=============================================================================
